---- MODULE Spec2Model ----
(***************************************************************************)
(* Model of the HTTP client of the Rynko SDK (HttpClient.request and its   *)
(* helpers): one logical API call with its retry loop, per-attempt timeout *)
(* timer and abort controller, and the normalisation of every failure;     *)
(* and of its webhook signature verifier (parseSignatureHeader,            *)
(* computeSignature, verifyWebhookSignature), one call at a time.          *)
(*                                                                         *)
(* Values that JavaScript leaves optional (null / undefined) are modelled  *)
(* as sequences of length 0 (absent) or 1 (present).  Times are in         *)
(* milliseconds.  Strings that the code scans character by character are   *)
(* sequences of one-character strings.                                     *)
(***************************************************************************)
EXTENDS Integers, Sequences, FiniteSets, TLC

VARIABLES
    config,       \* HttpClientConfig handed to the constructor
    retryConfig,  \* this.retryConfig: Null or the merged Required<RetryConfig>
    pc,           \* position of the call: idle, fetching, sleeping, done
    call,         \* arguments of request(): method, path, options.body
    attempt,      \* loop variable of the for loop
    attempts,     \* number of fetch() calls issued by the call
    sent,         \* the request handed to fetch() by the latest attempt
    sleeps,       \* number of sleep() calls made by the call
    delay,        \* the delay computed in the current iteration, if any
    lastError,    \* local lastError
    response,     \* the response of the current iteration
    result,       \* how the call ended: returned value or thrown error
    timers,       \* attempts whose timeout timer is armed
    aborted,      \* attempts whose AbortController has been aborted
    inflight,     \* attempts whose fetch() has not settled yet
    options,      \* WebhookVerifyOptions of the call of the verifier
    clock,        \* Date.now() at the call of the verifier
    vpc,          \* position of the verifier: ready, parsed, verified
    verdict,      \* how the call of the verifier ended
    thrownAt,     \* the check of the verifier that threw, or "none"
    examined,     \* number of byte pairs the comparison examined, if it ran
    performed,    \* the steps the verifier performed, in their order
    waitOptions,  \* options of waitForCompletion: pollInterval, timeout
    wpc,          \* position of waitForCompletion: idle, polling, sleeping, done
    startTime,    \* const startTime of waitForCompletion
    wallClock,    \* Date.now() as waitForCompletion runs
    job,          \* the job the latest getJob call resolved with, if any
    polls,        \* number of getJob calls made by waitForCompletion
    waited,       \* how waitForCompletion ended
    calls,        \* the locals of each of two concurrent calls of request()
    signArgs,     \* the arguments of the calls of computeSignature
    signatures,   \* what the calls of computeSignature returned, in order
    envelope,     \* the options of the repeated calls of the verifier
    verdicts,     \* the instants and verdicts of the repeated calls, in order
    memory        \* what the module of the verifier keeps between calls

httpVars == <<config, retryConfig, pc, call, attempt, attempts, sent, sleeps,
              delay, lastError, response, result, timers, aborted, inflight>>
hookVars == <<options, clock, vpc, verdict, thrownAt, examined, performed>>
pollVars == <<waitOptions, wpc, startTime, wallClock, job, polls, waited>>
signVars == <<signArgs, signatures>>
replayVars == <<envelope, verdicts, memory>>
vars == <<httpVars, hookVars, pollVars, calls, signVars, replayVars>>

------------------------------------------------------------------------------
(* Bounds of the model *)

\* custom retry policies have maxAttempts in 0..MaxCustomAttempts
MaxCustomAttempts == 3

\* Math.random() is sampled as r / RandomDenom for a few numerators r
RandomDenom == 1000

\* digests of the keyed hash have DigestBytes bytes (SHA-256 has 32)
DigestBytes == 2

------------------------------------------------------------------------------
(* Optional values *)

Null == <<>>
Some(x) == <<x>>
IsNull(o) == Len(o) = 0
Val(o) == o[1]

Min(a, b) == IF a <= b THEN a ELSE b

------------------------------------------------------------------------------
(* Retry configuration and the constructor *)

RetryFields == {"maxAttempts", "initialDelayMs", "maxDelayMs", "maxJitterMs",
                "retryableStatuses"}

DEFAULT_RETRY_CONFIG ==
    [maxAttempts |-> 5,
     initialDelayMs |-> 1000,
     maxDelayMs |-> 30000,
     maxJitterMs |-> 1000,
     retryableStatuses |-> {429, 503, 504}]

\* a RetryConfig object that sets none of its optional fields
NoOverride == [f \in RetryFields |-> Null]

\* the values of config.retry the model constructs clients with:
\* retry: false, retry left out, and objects overriding some fields
RetryFalse == [isFalse |-> TRUE, fields |-> NoOverride]
RetryOmitted == [isFalse |-> FALSE, fields |-> NoOverride]
RetryObject(o) == [isFalse |-> FALSE, fields |-> o]

RetryInputs ==
    {RetryFalse, RetryOmitted}
    \cup {RetryObject([NoOverride EXCEPT !.maxAttempts = Some(n)]) :
            n \in 0..MaxCustomAttempts}
    \cup {RetryObject([NoOverride EXCEPT !.maxAttempts = Some(3),
                                         !.initialDelayMs = Some(16000)]),
          RetryObject([NoOverride EXCEPT !.maxAttempts = Some(2),
                                         !.maxJitterMs = Some(0),
                                         !.retryableStatuses = Some({429, 500})]),
          RetryObject([NoOverride EXCEPT !.maxDelayMs = Some(1500)])}

HeaderNames == {"Content-Type", "Authorization", "User-Agent", "X-Request-Source"}
NoHeaders == [h \in HeaderNames |-> Null]

HeaderInputs ==
    {NoHeaders,
     [NoHeaders EXCEPT !["X-Request-Source"] = Some("batch")],
     [NoHeaders EXCEPT !["Authorization"] = Some("Token tenant_1")]}

\* config.baseUrl: an absolute URL, or text without a scheme (a bare host
\* name), which new URL() does not accept as a base
AbsoluteUrl(scheme, host) == [scheme |-> Some(scheme), host |-> host]
BareHost(host) == [scheme |-> Null, host |-> host]
BaseUrls == {AbsoluteUrl("https", "api.rynko.dev"), BareHost("api.rynko.dev")}

Configs ==
    [baseUrl : BaseUrls, apiKey : {"key_1"}, timeout : {30000},
     headers : HeaderInputs, retry : RetryInputs]

\* { ...DEFAULT_RETRY_CONFIG, ...config.retry }
MergeRetry(d, o) == [f \in RetryFields |-> IF IsNull(o[f]) THEN d[f] ELSE Val(o[f])]

\* a constructor that does not honour retry: false
Constructor_IgnoreFalse(c) == Some(MergeRetry(DEFAULT_RETRY_CONFIG, c.retry.fields))

\* constructor: the retry policy of a client
Constructor(c) ==
    IF c.retry.isFalse THEN Null
    ELSE Some(MergeRetry(DEFAULT_RETRY_CONFIG, c.retry.fields))

\* this.retryConfig?.maxAttempts ?? 1
MaxAttempts(rc) == IF IsNull(rc) THEN 1 ELSE Val(rc).maxAttempts

------------------------------------------------------------------------------
(* Retry-After parsing and the backoff delay *)

Digits == <<"0", "1", "2", "3", "4", "5", "6", "7", "8", "9">>
IsDigit(c) == \E i \in 1..10 : Digits[i] = c
DigitValue(c) == (CHOOSE i \in 1..10 : Digits[i] = c) - 1

RECURSIVE SkipSpaces(_)
SkipSpaces(s) == IF s # <<>> /\ Head(s) = " " THEN SkipSpaces(Tail(s)) ELSE s

RECURSIVE ReadDigits(_, _)
\* the value of the longest prefix of digits of s, continuing from acc
ReadDigits(s, acc) ==
    IF s # <<>> /\ IsDigit(Head(s))
    THEN ReadDigits(Tail(s), 10 * acc + DigitValue(Head(s)))
    ELSE acc

\* parseInt(text, 10): leading white space, an optional sign, then digits;
\* Null stands for NaN
ParseInt(text) ==
    LET t0 == SkipSpaces(text)
        negative == t0 # <<>> /\ Head(t0) = "-"
        signed == t0 # <<>> /\ Head(t0) \in {"-", "+"}
        t1 == IF signed THEN Tail(t0) ELSE t0
    IN IF t1 = <<>> \/ ~IsDigit(Head(t1)) THEN Null
       ELSE Some(IF negative THEN 0 - ReadDigits(t1, 0) ELSE ReadDigits(t1, 0))

\* `${n}` for an integer n
RECURSIVE NatToString(_)
NatToString(n) ==
    IF n < 10 THEN <<Digits[n + 1]>>
    ELSE NatToString(n \div 10) \o <<Digits[(n % 10) + 1]>>
NumberToString(n) == IF n < 0 THEN <<"-">> \o NatToString(0 - n) ELSE NatToString(n)

\* the instant "now" of the model's clock scale, and the instants the
\* HTTP-dates of the model denote
Epoch == 1000 * 1000
DateFuture == <<"Thu, 05 Nov 2026 12:00:05 GMT">>
DateNow == <<"Thu, 05 Nov 2026 12:00:00 GMT">>
DatePast == <<"Thu, 05 Nov 2026 11:59:50 GMT">>

\* new Date(text).getTime(); Null stands for NaN (Invalid Date)
DateGetTime(text) ==
    IF text = DateFuture THEN Some(Epoch + 5000)
    ELSE IF text = DateNow THEN Some(Epoch)
    ELSE IF text = DatePast THEN Some(Epoch - 10000)
    ELSE Null

\* values of Date.now() while a response is handled
NowValues == {Epoch}

\* values of the Retry-After header: absent, empty, seconds, dates, other text
RetryAfterValues ==
    {Null, Some(<<>>), Some(<<"2">>), Some(<<"0">>), Some(<<"6", "0">>),
     Some(<<"-", "1">>), Some(<<" ", "2", "s">>), Some(<<"s", "o", "o", "n">>),
     Some(DateFuture), Some(DateNow), Some(DatePast)}

\* a delay from an HTTP-date that is clamped at zero
DateDelay_Clamped(delayMs) == Some(IF delayMs > 0 THEN delayMs ELSE 0)

\* delayMs > 0 ? delayMs : undefined
DateDelay(delayMs) == IF delayMs > 0 THEN Some(delayMs) ELSE Null

\* a parseRetryAfter that takes the count of seconds for milliseconds
parseRetryAfter_NoScale(retryAfter, now) ==
    IF IsNull(retryAfter) \/ Val(retryAfter) = <<>> THEN Null
    ELSE LET seconds == ParseInt(Val(retryAfter))
             date == DateGetTime(Val(retryAfter))
         IN IF ~IsNull(seconds) THEN Some(Val(seconds))
            ELSE IF ~IsNull(date)
                 THEN DateDelay(Val(date) - now)
                 ELSE Null

parseRetryAfter(retryAfter, now) ==
    IF IsNull(retryAfter) \/ Val(retryAfter) = <<>> THEN Null
    ELSE LET seconds == ParseInt(Val(retryAfter))
             date == DateGetTime(Val(retryAfter))
         IN IF ~IsNull(seconds) THEN Some(Val(seconds) * 1000)
            ELSE IF ~IsNull(date)
                 THEN DateDelay(Val(date) - now)
                 ELSE Null

\* numerators r of the sampled values r / RandomDenom of Math.random()
RandomValues == {0, RandomDenom \div 2, RandomDenom - 1}

\* a jitter that can reach maxJitterMs
Jitter_UpToMax(rnd, maxJitterMs) == ((rnd + 1) * maxJitterMs) \div RandomDenom

\* Math.random() * maxJitterMs, in whole milliseconds
Jitter(rnd, maxJitterMs) == (rnd * maxJitterMs) \div RandomDenom

\* a calculateDelay that does not cap the server's Retry-After
calculateDelay_NoCap(rc, n, retryAfterMs, rnd) ==
    IF IsNull(rc) THEN 0
    ELSE IF ~IsNull(retryAfterMs)
         THEN Val(retryAfterMs) + Jitter(rnd, Val(rc).maxJitterMs)
         ELSE Min(Val(rc).initialDelayMs * (2 ^ n) + Jitter(rnd, Val(rc).maxJitterMs),
                  Val(rc).maxDelayMs)

calculateDelay(rc, n, retryAfterMs, rnd) ==
    IF IsNull(rc) THEN 0
    ELSE IF ~IsNull(retryAfterMs)
         THEN Min(Val(retryAfterMs) + Jitter(rnd, Val(rc).maxJitterMs),
                  Val(rc).maxDelayMs)
         ELSE Min(Val(rc).initialDelayMs * (2 ^ n) + Jitter(rnd, Val(rc).maxJitterMs),
                  Val(rc).maxDelayMs)

shouldRetry(rc, statusCode) ==
    IF IsNull(rc) THEN FALSE ELSE statusCode \in Val(rc).retryableStatuses

------------------------------------------------------------------------------
(* Requests, responses and errors *)

\* the arguments get(), post(), put(), patch() and delete() pass to request()
CallBodies == {Null, Some([templateId |-> "tmpl_1", format |-> "pdf"])}

\* the values of a query mapping: numbers, strings, booleans, Dates,
\* undefined and null
NumberValue(n) == [type |-> "number", value |-> n]
StringValue(s) == [type |-> "string", value |-> s]
BooleanValue(b) == [type |-> "boolean", value |-> b]
DateValue(t) == [type |-> "date", value |-> t]
Undefined == [type |-> "undefined", value |-> 0]
NullValue == [type |-> "null", value |-> 0]

\* the query mappings of the model, each the sequence of its entries in
\* the order of Object.entries
JobsQuery ==
    << <<"status", StringValue(<<"completed">>)>>,
       <<"limit", NumberValue(0)>>,
       <<"dateFrom", DateValue(Epoch)>>,
       <<"page", Undefined>>,
       <<"workspaceId", NullValue>>,
       <<"archived", BooleanValue(FALSE)>>,
       <<"templateId", StringValue(<<>>)>> >>
PageQuery ==
    << <<"format", Undefined>>,
       <<"limit", NumberValue(20)>>,
       <<"dateTo", DateValue(Epoch + 5000)>> >>
QueryInputs == {JobsQuery, PageQuery}

Calls ==
    [method : {"GET"}, path : {"/api/v1/documents/jobs/job_1"}, body : {Null},
     query : {Null}]
    \cup [method : {"GET"}, path : {"/api/v1/documents/jobs"}, body : {Null},
          query : {Some(q) : q \in QueryInputs}]
    \cup [method : {"POST"}, path : {"/api/v1/documents/generate"},
          body : CallBodies, query : {Null}]

\* value.toISOString() for the Dates of the model
ToISOString(t) ==
    IF t = Epoch THEN <<"2026-11-05T12:00:00.000Z">>
    ELSE IF t = Epoch + 5000 THEN <<"2026-11-05T12:00:05.000Z">>
    ELSE <<"2026-11-05T11:59:50.000Z">>

\* String(value)
StringOf(v) ==
    CASE v.type = "number" -> NumberToString(v.value)
      [] v.type = "string" -> v.value
      [] v.type = "boolean" -> (IF v.value THEN <<"true">> ELSE <<"false">>)
      [] v.type = "undefined" -> <<"undefined">>
      [] v.type = "null" -> <<"null">>

\* a test that drops every falsy value
IsPresent_Truthy(v) ==
    CASE v.type = "number" -> v.value # 0
      [] v.type = "string" -> v.value # <<>>
      [] v.type = "boolean" -> v.value
      [] v.type = "date" -> TRUE
      [] OTHER -> FALSE

\* value !== undefined && value !== null
IsPresent(v) == v.type \notin {"undefined", "null"}

\* the forEach over Object.entries(options.query): the parameters appended
\* to url.searchParams, as pairs of a name and a value
RECURSIVE AppendEntries(_, _)
AppendEntries(entries, searchParams) ==
    IF entries = <<>> THEN searchParams
    ELSE LET key == Head(entries)[1]
             value == Head(entries)[2]
         IN AppendEntries(Tail(entries),
              IF IsPresent(value)
              THEN (IF value.type = "date"
                    THEN Append(searchParams, <<key, ToISOString(value.value)>>)
                    ELSE Append(searchParams, <<key, StringOf(value)>>))
              ELSE searchParams)

\* if (options.query) { ... }
SearchParams(query) ==
    IF IsNull(query) THEN <<>> ELSE AppendEntries(Val(query), <<>>)

\* JSON.stringify(value): the JSON text of a value
JsonStringify(value) == [json |-> value]

\* new URL(path, baseUrl) for an absolute path and a base without a path of
\* its own: the URL as text, or Null when the constructor throws TypeError
\* because the base is not an absolute URL
NewUrl(path, baseUrl) ==
    IF IsNull(baseUrl.scheme) THEN Null
    ELSE Some(Val(baseUrl.scheme) \o "://" \o baseUrl.host \o path)

DefaultHeaders(c) ==
    [h \in HeaderNames |->
        IF h = "Content-Type" THEN Some("application/json")
        ELSE IF h = "Authorization" THEN Some("Bearer " \o c.apiKey)
        ELSE IF h = "User-Agent" THEN Some("@rynko/sdk/1.0.0")
        ELSE Null]

\* { ...defaults, ...this.config.headers }
RequestHeaders_CustomOnly(c) ==
    IF c.headers = NoHeaders THEN DefaultHeaders(c) ELSE c.headers

RequestHeaders(c) ==
    [h \in HeaderNames |->
        IF IsNull(c.headers[h]) THEN DefaultHeaders(c)[h] ELSE c.headers[h]]

\* the arguments of fetch() for one attempt of a call
FetchArguments(c, rq) ==
    [method |-> rq.method,
     url |-> Val(NewUrl(rq.path, c.baseUrl)),
     searchParams |-> SearchParams(rq.query),
     headers |-> RequestHeaders(c),
     body |-> IF IsNull(rq.body) THEN Null ELSE Some(JsonStringify(Val(rq.body)))]

\* decoded JSON objects: each key is absent or carries a string
JsonKeys == {"message", "error", "success", "data"}
EmptyObject == [k \in JsonKeys |-> Null]

JsonObjects ==
    {EmptyObject,
     [EmptyObject EXCEPT !.message = Some("Rate limit exceeded"),
                         !.error = Some("RateLimited")],
     [EmptyObject EXCEPT !.message = Some("Not available")],
     [EmptyObject EXCEPT !.success = Some("true"), !.data = Some("job_1")]}

\* response bodies on the wire: the JSON text of an object, or text that is
\* not JSON (an HTML error page, an empty body)
JsonBody(o) == [kind |-> "json", object |-> o]
TextBody == [kind |-> "text", object |-> EmptyObject]
Bodies == {JsonBody(o) : o \in JsonObjects} \cup {TextBody}

Statuses == {200, 404, 429, 500, 503}

\* the responses of the model: every status with every body, and the
\* statuses that servers send Retry-After with, with every header value
Responses ==
    [status : Statuses, retryAfter : {Null}, body : Bodies]
    \cup [status : {429, 500, 503}, retryAfter : RetryAfterValues,
          body : {JsonBody(EmptyObject), TextBody}]

\* response.ok
Ok(resp) == resp.status \in 200..299

\* values a JavaScript throw can carry; code = "" and statusCode = -1 stand
\* for an object without these properties
RynkoError(message, code, statusCode) ==
    [isError |-> TRUE, name |-> "RynkoError", message |-> message,
     code |-> code, statusCode |-> statusCode]
JsError(name, message) ==
    [isError |-> TRUE, name |-> name, message |-> message,
     code |-> "", statusCode |-> -1]
NonError(text) ==
    [isError |-> FALSE, name |-> "", message |-> text,
     code |-> "", statusCode |-> -1]

InstanceOfRynkoError(e) == e.isError /\ e.name = "RynkoError"

\* what fetch() rejects with when the attempt fails without a response
AbortError == JsError("AbortError", "This operation was aborted")
FetchFailures == {JsError("TypeError", "fetch failed"), NonError("socket closed")}

\* response.json(): the body can be read once, and must be JSON
ResponseJson(body, bodyUsed) ==
    IF bodyUsed
    THEN [ok |-> FALSE, object |-> EmptyObject,
          thrown |-> JsError("TypeError", "Body is unusable")]
    ELSE IF body.kind # "json"
    THEN [ok |-> FALSE, object |-> EmptyObject,
          thrown |-> JsError("SyntaxError", "Unexpected token")]
    ELSE [ok |-> TRUE, object |-> body.object, thrown |-> NonError("")]

\* x || fallback for an optional string x
OrElse(x, fallback) == IF IsNull(x) \/ Val(x) = "" THEN fallback ELSE Val(x)

\* new RynkoError(error.message || `HTTP ${status}`, error.error || 'ApiError', status)
ApiErrorOf(object, status) ==
    RynkoError(OrElse(object.message, "HTTP " \o ToString(status)),
               OrElse(object.error, "ApiError"),
               status)

------------------------------------------------------------------------------
(* One iteration of the retry loop *)

\* how an iteration ends: sleep and continue, return a value or throw an
\* error; d is the delay the iteration computed with calculateDelay, if any
Sleep(d, le) ==
    [next |-> "sleep", delay |-> Some(d), lastError |-> le, value |-> Null,
     error |-> Null]
\* a return that unwraps the data of a {success, data} envelope
Return_Unwrap(v, le, d) ==
    [next |-> "return", delay |-> d, lastError |-> le,
     value |-> Some(IF IsNull(v.data) THEN v ELSE [EmptyObject EXCEPT !.data = v.data]),
     error |-> Null]

Return(v, le, d) ==
    [next |-> "return", delay |-> d, lastError |-> le, value |-> Some(v),
     error |-> Null]
Throw(e, le, d) ==
    [next |-> "throw", delay |-> d, lastError |-> le, value |-> Null,
     error |-> Some(e)]

\* !response.ok && this.shouldRetry(response.status)
Retryable(rc, resp) == ~Ok(resp) /\ shouldRetry(rc, resp.status)

\* conditions that misjudge which attempt is the last one
AttemptsRemain_GiveUpEarly(rc, n) == n < MaxAttempts(rc) - 2
AttemptsRemain_OneTooMany(rc, n) == n < MaxAttempts(rc)

\* attempt < maxAttempts - 1
AttemptsRemain(rc, n) == n < MaxAttempts(rc) - 1

\* a catch block that does not tell an abort from other failures
Catch_NoAbortCase(rc, n, e, le, d, rnd) ==
    IF InstanceOfRynkoError(e)
    THEN IF ~shouldRetry(rc, e.statusCode) \/ n >= MaxAttempts(rc) - 1
         THEN Throw(e, le, d)
         ELSE Sleep(calculateDelay(rc, n, Null, rnd), Some(e))
    ELSE IF e.isError
    THEN Throw(RynkoError(e.message, "NetworkError", 0), le, d)
    ELSE Throw(RynkoError("Unknown error", "UnknownError", 0), le, d)

\* the catch block, for the value e thrown in the try block of attempt n
Catch(rc, n, e, le, d, rnd) ==
    IF InstanceOfRynkoError(e)
    THEN IF ~shouldRetry(rc, e.statusCode) \/ n >= MaxAttempts(rc) - 1
         THEN Throw(e, le, d)
         ELSE Sleep(calculateDelay(rc, n, Null, rnd), Some(e))
    ELSE IF e.isError
    THEN IF e.name = "AbortError"
         THEN Throw(RynkoError("Request timeout", "TimeoutError", 408), le, d)
         ELSE Throw(RynkoError(e.message, "NetworkError", 0), le, d)
    ELSE Throw(RynkoError("Unknown error", "UnknownError", 0), le, d)

\* the try block of attempt n from the point where fetch() has resolved
\* with resp, followed by the catch block when it throws; rnd is the value
\* of Math.random() in the one calculateDelay call whose result is used
Try(rc, n, resp, le, now, rnd) ==
    LET retryable == Retryable(rc, resp)
        retryAfterMs == parseRetryAfter(resp.retryAfter, now)
        d == calculateDelay(rc, n, retryAfterMs, rnd)
        d1 == IF retryable THEN Some(d) ELSE Null
        \* response.json().catch(() => ({}))
        first == ResponseJson(resp.body, FALSE)
        data1 == IF first.ok THEN first.object ELSE EmptyObject
        le1 == IF retryable THEN Some(ApiErrorOf(data1, resp.status)) ELSE le
        \* the body was read above when the response was retryable
        second == ResponseJson(resp.body, retryable)
    IN IF retryable /\ AttemptsRemain(rc, n)
       THEN Sleep(d, le1)
       ELSE IF ~second.ok
       THEN Catch(rc, n, second.thrown, le1, d1, rnd)
       ELSE IF ~Ok(resp)
       THEN Catch(rc, n, ApiErrorOf(second.object, resp.status), le1, d1, rnd)
       ELSE Return(second.object, le1, d1)

------------------------------------------------------------------------------
(* The webhook signature verifier: strings and bytes *)

\* the secrets and the pieces of text that payloads and signed strings are
\* made of, besides decimal digits
Secrets == {"whsec_a", "whsec_b"}
Alphabet ==
    Digits \o <<".", "-", "{", "}", ":", "type", "document.completed",
                "whsec_a", "whsec_b">>
Code(c) == CHOOSE i \in 1..Len(Alphabet) : Alphabet[i] = c

\* the index of the first c in s, 0 if there is none
IndexOf(s, c) ==
    IF \E i \in 1..Len(s) : s[i] = c
    THEN CHOOSE i \in 1..Len(s) : s[i] = c /\ \A j \in 1..(i - 1) : s[j] # c
    ELSE 0

\* s.split(sep) for a one-character separator
RECURSIVE Split(_, _)
Split(s, sep) ==
    LET i == IndexOf(s, sep)
    IN IF i = 0 THEN <<s>>
       ELSE <<SubSeq(s, 1, i - 1)>> \o Split(SubSeq(s, i + 1, Len(s)), sep)

\* hexadecimal digits; Buffer.from(text, 'hex') reads both letter cases
HexDigits ==
    <<"0", "1", "2", "3", "4", "5", "6", "7", "8", "9", "a", "b", "c", "d", "e", "f">>
UpperHexDigits ==
    <<"0", "1", "2", "3", "4", "5", "6", "7", "8", "9", "A", "B", "C", "D", "E", "F">>
IsHex(c) == \E i \in 1..16 : HexDigits[i] = c \/ UpperHexDigits[i] = c
HexValue(c) == (CHOOSE i \in 1..16 : HexDigits[i] = c \/ UpperHexDigits[i] = c) - 1

\* digest('hex'): n written with the given number of lower-case hex digits
RECURSIVE ToHex(_, _)
ToHex(n, width) ==
    IF width = 0 THEN <<>>
    ELSE ToHex(n \div 16, width - 1) \o <<HexDigits[(n % 16) + 1]>>

\* Buffer.from(text, 'hex'): one byte for every pair of hex digits, up to
\* the first pair that is not two hex digits; a last single character is
\* dropped
RECURSIVE BufferFromHex(_)
BufferFromHex(text) ==
    IF Len(text) < 2 \/ ~IsHex(text[1]) \/ ~IsHex(text[2]) THEN <<>>
    ELSE <<16 * HexValue(text[1]) + HexValue(text[2])>>
         \o BufferFromHex(SubSeq(text, 3, Len(text)))

\* a pass over two buffers of equal length that compares them pair by pair
\* and counts the pairs it examines; a short-circuiting pass stops at the
\* first pair that differs
RECURSIVE ScanPairs(_, _, _)
ScanPairs(a, b, shortCircuit) ==
    IF a = <<>> THEN [equal |-> TRUE, examined |-> 0]
    ELSE IF shortCircuit /\ Head(a) # Head(b) THEN [equal |-> FALSE, examined |-> 1]
    ELSE LET rest == ScanPairs(Tail(a), Tail(b), shortCircuit)
         IN [equal |-> rest.equal /\ Head(a) = Head(b),
             examined |-> rest.examined + 1]

\* a comparison that stops at the first pair of bytes that differ
TimingSafeScan_ShortCircuit(a, b) == ScanPairs(a, b, TRUE)

\* the pass of crypto.timingSafeEqual: every pair of bytes is examined
TimingSafeScan(a, b) == ScanPairs(a, b, FALSE)

\* a comparison that looks at the first byte only
timingSafeEqual_FirstByteOnly(a, b) == a = <<>> \/ Head(a) = Head(b)

\* crypto.timingSafeEqual(a, b) for buffers of equal length
timingSafeEqual(a, b) == TimingSafeScan(a, b).equal

\* HMAC-SHA256 with digests of DigestBytes bytes: a keyed hash of the
\* message, one-to-one on the keys and messages of the model
DigestSpace == 16 ^ (2 * DigestBytes)
RECURSIVE HashFrom(_, _)
HashFrom(h, s) ==
    IF s = <<>> THEN h
    ELSE HashFrom((h * 31 + Code(Head(s))) % DigestSpace, Tail(s))
CreateHmac(secret, message) == HashFrom((Code(secret) * 257) % DigestSpace, message)

\* numbers that are whole, and numbers with one decimal place
Integer(n) == [units |-> n, tenths |-> 0]
Fraction(units, tenths) == [units |-> units, tenths |-> tenths]

\* `${x}` for a number x that is not negative
TemplateText(x) ==
    NumberToString(x.units)
      \o (IF x.tenths = 0 THEN <<>> ELSE <<".", Digits[x.tenths + 1]>>)

\* `${timestamp}.${payload}`
SignedPayload(timestamp, payload) == TemplateText(timestamp) \o <<".">> \o payload

\* a signature that does not depend on the secret
computeSignature_FixedKey(timestamp, payload, secret) ==
    ToHex(CreateHmac("whsec_a", SignedPayload(timestamp, payload)), 2 * DigestBytes)

\* computeSignature(timestamp, payload, secret)
computeSignature(timestamp, payload, secret) ==
    ToHex(CreateHmac(secret, SignedPayload(timestamp, payload)), 2 * DigestBytes)

\* payloads: JSON text as a sequence of tokens
EmptyObjectPayload == <<"{", "}">>
EventPayload == <<"{", "type", ":", "document.completed", "}">>
TruncatedPayload == <<"{", "type", ":">>
Payloads == {EmptyObjectPayload, EventPayload, TruncatedPayload}

\* JSON.parse(payload) as WebhookEvent: the event, or Null when JSON.parse
\* throws SyntaxError
JsonParse(payload) ==
    IF payload = <<"{", "}">> THEN Some([type |-> Null])
    ELSE IF /\ Len(payload) = 5
            /\ payload[1] = "{"
            /\ payload[2] = "type"
            /\ payload[3] = ":"
            /\ payload[5] = "}"
    THEN Some([type |-> Some(payload[4])])
    ELSE Null

------------------------------------------------------------------------------
(* parseSignatureHeader and verifyWebhookSignature *)

WebhookSignatureError(message) == [name |-> "WebhookSignatureError", message |-> message]

\* how a call of the verifier ends
NoVerdict == [kind |-> "none", value |-> Null, error |-> Null]
Gives(v) == [kind |-> "return", value |-> Some(v), error |-> Null]
Throws(e) == [kind |-> "throw", value |-> Null, error |-> Some(e)]

\* const [key, value] = part.split('='): value is Null (undefined) when the
\* part has no '='
KeyOf(part) == Split(part, "=")[1]
ValueOf(part) ==
    LET kv == Split(part, "=") IN IF Len(kv) >= 2 THEN Some(kv[2]) ELSE Null

\* a loop body that takes the signature of any scheme version v<n>
ParsePart_AnyVersion(part, parsed) ==
    LET key == KeyOf(part)
        value == ValueOf(part)
    IN IF key = <<"t">>
       THEN [parsed EXCEPT !.timestamp =
                IF IsNull(value) THEN Null ELSE ParseInt(Val(value))]
       ELSE IF key # <<>> /\ Head(key) = "v"
       THEN [parsed EXCEPT !.signature = value]
       ELSE parsed

\* the body of the loop over the parts
ParsePart(part, parsed) ==
    LET key == KeyOf(part)
        value == ValueOf(part)
    IN IF key = <<"t">>
       THEN [parsed EXCEPT !.timestamp =
                IF IsNull(value) THEN Null ELSE ParseInt(Val(value))]
       ELSE IF key = <<"v", "1">>
       THEN [parsed EXCEPT !.signature = value]
       ELSE parsed

\* the loop over the parts: later parts overwrite what earlier ones set;
\* a timestamp of Null stands for undefined and for NaN
RECURSIVE ParseParts(_, _)
ParseParts(parts, parsed) ==
    IF parts = <<>> THEN parsed
    ELSE ParseParts(Tail(parts), ParsePart(Head(parts), parsed))

\* a check of the timestamp alone
Incomplete_TimestampOnly(parsed) == IsNull(parsed.timestamp) \/ Val(parsed.timestamp) = 0

\* !parsed.timestamp || !parsed.signature
Incomplete(parsed) ==
    \/ IsNull(parsed.timestamp) \/ Val(parsed.timestamp) = 0
    \/ IsNull(parsed.signature) \/ Val(parsed.signature) = <<>>

parseSignatureHeader(header) ==
    LET parsed == ParseParts(Split(header, ","), [timestamp |-> Null, signature |-> Null])
    IN IF Incomplete(parsed)
       THEN Throws(WebhookSignatureError("Invalid signature header format"))
       ELSE Gives(parsed)

Abs(x) == IF x < 0 THEN 0 - x ELSE x

\* a tolerance check that rejects the boundary too
OutsideTolerance_Boundary(now, timestamp, tolerance) == Abs(now - timestamp) >= tolerance

\* a tolerance check for old timestamps only
OutsideTolerance_PastOnly(now, timestamp, tolerance) == now - timestamp > tolerance

\* Math.abs(now - timestamp) > tolerance
OutsideTolerance(now, timestamp, tolerance) == Abs(now - timestamp) > tolerance

\* a payload check without the catch block: the SyntaxError of JSON.parse
\* escapes
ParsePayload_NoCatch(payload) ==
    IF IsNull(JsonParse(payload))
    THEN Throws([name |-> "SyntaxError", message |-> "Unexpected end of JSON input"])
    ELSE Gives(Val(JsonParse(payload)))

\* a payload check that reports a bad payload as a bad signature
ParsePayload_SignatureError(payload) ==
    IF IsNull(JsonParse(payload))
    THEN Throws(WebhookSignatureError("Invalid signature"))
    ELSE Gives(Val(JsonParse(payload)))

\* try { return JSON.parse(payload) } catch { throw ... }
ParsePayload(payload) ==
    IF IsNull(JsonParse(payload))
    THEN Throws(WebhookSignatureError("Invalid webhook payload"))
    ELSE Gives(Val(JsonParse(payload)))

\* tolerance = 300 unless the options set it
ToleranceOf(o) == IF IsNull(o.tolerance) THEN 300 ELSE Val(o.tolerance)

\* Math.floor(Date.now() / 1000)
NowSeconds(nowMs) == nowMs \div 1000

\* the steps of verifyWebhookSignature in the order of its statements, and
\* those performed by a run that ended at a site
Steps ==
    <<"parseSignatureHeader", "tolerance", "computeSignature", "length",
      "timingSafeEqual", "JSON.parse">>
UpTo(step) == SubSeq(Steps, 1, CHOOSE i \in 1..Len(Steps) : Steps[i] = step)

\* a run of the verifier: its verdict, the throw statement that ended it,
\* the byte pairs its comparison examined, and the steps it performed
Run(v, site, n, steps) ==
    [verdict |-> v, site |-> site, examined |-> n, performed |-> steps]

\* a verifier that checks the signature before the timestamp
VerifyRun_SignatureFirst(o, nowMs) ==
    LET parsed == parseSignatureHeader(o.signature)
    IN IF parsed.kind = "throw"
       THEN Run(parsed, "format", Null, UpTo("parseSignatureHeader"))
       ELSE LET timestamp == Val(Val(parsed.value).timestamp)
                expectedSig == Val(Val(parsed.value).signature)
                computedSig == computeSignature(Integer(timestamp), o.payload, o.secret)
                sigBuffer == BufferFromHex(expectedSig)
                computedBuffer == BufferFromHex(computedSig)
                work == Some(TimingSafeScan(sigBuffer, computedBuffer).examined)
            IN IF Len(sigBuffer) # Len(computedBuffer)
               THEN Run(Throws(WebhookSignatureError("Invalid signature")),
                        "length", Null,
                        <<"parseSignatureHeader", "computeSignature", "length">>)
               ELSE IF ~timingSafeEqual(sigBuffer, computedBuffer)
               THEN Run(Throws(WebhookSignatureError("Invalid signature")),
                        "bytes", work,
                        <<"parseSignatureHeader", "computeSignature", "length",
                          "timingSafeEqual">>)
               ELSE IF OutsideTolerance(NowSeconds(nowMs), timestamp, ToleranceOf(o))
               THEN Run(Throws(WebhookSignatureError("Webhook timestamp outside tolerance window")),
                        "tolerance", work,
                        <<"parseSignatureHeader", "computeSignature", "length",
                          "timingSafeEqual", "tolerance">>)
               ELSE Run(ParsePayload(o.payload),
                        IF ParsePayload(o.payload).kind = "throw"
                        THEN "json" ELSE "none",
                        work,
                        <<"parseSignatureHeader", "computeSignature", "length",
                          "timingSafeEqual", "tolerance", "JSON.parse">>)

VerifyRun(o, nowMs) ==
    LET parsed == parseSignatureHeader(o.signature)
    IN IF parsed.kind = "throw"
       THEN Run(parsed, "format", Null, UpTo("parseSignatureHeader"))
       ELSE LET timestamp == Val(Val(parsed.value).timestamp)
                expectedSig == Val(Val(parsed.value).signature)
            IN IF OutsideTolerance(NowSeconds(nowMs), timestamp, ToleranceOf(o))
               THEN Run(Throws(WebhookSignatureError("Webhook timestamp outside tolerance window")),
                        "tolerance", Null, UpTo("tolerance"))
               ELSE LET computedSig == computeSignature(Integer(timestamp), o.payload, o.secret)
                        sigBuffer == BufferFromHex(expectedSig)
                        computedBuffer == BufferFromHex(computedSig)
                        work == Some(TimingSafeScan(sigBuffer, computedBuffer).examined)
                    IN IF Len(sigBuffer) # Len(computedBuffer)
                       THEN Run(Throws(WebhookSignatureError("Invalid signature")),
                                "length", Null, UpTo("length"))
                       ELSE IF ~timingSafeEqual(sigBuffer, computedBuffer)
                       THEN Run(Throws(WebhookSignatureError("Invalid signature")),
                                "bytes", work, UpTo("timingSafeEqual"))
                       ELSE Run(ParsePayload(o.payload),
                                IF ParsePayload(o.payload).kind = "throw"
                                THEN "json" ELSE "none",
                                work, UpTo("JSON.parse"))

verifyWebhookSignature(o, nowMs) == VerifyRun(o, nowMs).verdict

------------------------------------------------------------------------------
(* Calls of the verifier *)

\* `t=${timestamp},v1=${signature}`, the header a sender builds
SignatureHeader(timestamp, signature) ==
    <<"t", "=">> \o NumberToString(timestamp) \o <<",", "v", "1", "=">> \o signature

\* values of Date.now() at a call of the verifier, both in the same second
Clocks == {Epoch, Epoch + 999}

\* timestamps of headers: the current second, its neighbours, the edges of
\* the default tolerance window on both sides, and a far future second
Timestamps ==
    LET now == NowSeconds(Epoch)
    IN {now, now - 1, now + 1, now - 300, now - 301, now + 300, now + 301,
        1700000000}

\* options.tolerance: left out, or set
Tolerances == {Null, Some(0), Some(600)}

\* signature text with the hex digit at position i replaced by the next one
OneOff(sig, i) == [sig EXCEPT ![i] = HexDigits[((HexValue(sig[i]) + 1) % 16) + 1]]
ToUpper(sig) == [i \in 1..Len(sig) |-> UpperHexDigits[HexValue(sig[i]) + 1]]

\* what a header can carry in place of the signature sig: sig itself, sig
\* with one digit changed, sig in upper case, sig without its last byte,
\* sig followed by other characters or by a single hex digit
SignatureVariants(sig) ==
    {sig, ToUpper(sig), SubSeq(sig, 1, Len(sig) - 2),
     sig \o <<"z", "z">>, sig \o <<"a">>}
    \cup {OneOff(sig, i) : i \in 1..Len(sig)}

\* headers signed for payload p by a sender holding either secret
SignedHeaders(p) ==
    UNION {{SignatureHeader(ts, v) : v \in SignatureVariants(computeSignature(Integer(ts), p, s))} :
             ts \in Timestamps, s \in Secrets}

\* other headers: the two examples of the header format, and headers with
\* parts missing, empty, unparsable, repeated, reordered or unknown
ExampleHeader == SignatureHeader(1700000000, <<"a", "b", "c", "d">>)
SignatureOnlyHeader == <<"v", "1", "=", "a", "b", "c", "d">>
OtherHeaders ==
    {ExampleHeader,
     SignatureOnlyHeader,
     <<>>,
     <<"t", "=", "1", "0", "0", "0">>,
     <<"t", "=", "s", "o", "o", "n", ",", "v", "1", "=", "a", "b", "c", "d">>,
     <<"t", ",", "v", "1", "=", "a", "b", "c", "d">>,
     <<"t", "=", "0", ",", "v", "1", "=", "a", "b", "c", "d">>,
     <<"t", "=", "1", "0", "0", "0", "s", ",", "v", "1", "=", "a", "b", "c", "d">>,
     <<"t", "=", "1", "0", "0", "0", ",", "v", "1", "=">>,
     <<"t", "=", "1", "0", "0", "0", ",", "v", "1">>,
     <<"v", "1", "=", "a", "b", "c", "d", ",", "t", "=", "1", "0", "0", "0">>,
     <<"t", "=", "1", "0", "0", "0", ",", "v", "0", "=", "f", "f", ",", "v", "1", "=", "a", "b", "c", "d">>,
     <<"t", "=", "1", "0", "0", "0", ",", " ", "v", "1", "=", "a", "b", "c", "d">>,
     <<"t", "=", "9", "9", "9", ",", "t", "=", "1", "0", "0", "0", ",", "v", "1", "=", "a", "b", "=", "c", "d">>}

\* the options of the calls of the model
VerifyInputs ==
    UNION {[payload : {p}, signature : SignedHeaders(p) \cup OtherHeaders,
            secret : Secrets, tolerance : Tolerances] : p \in Payloads}

\* the options held while the verifier is not called
IdleOptions ==
    [payload |-> EmptyObjectPayload, signature |-> ExampleHeader,
     secret |-> "whsec_a", tolerance |-> Null]

\* the arguments of the calls of computeSignature: whole and fractional
\* timestamps, payloads that are JSON and payloads that begin with digits
NumberedPayload == <<"5", ".", "{", "}">>
SignInputs ==
    [timestamp : {Integer(1), Integer(15), Fraction(1, 5), Integer(1000),
                  Integer(1700000000)},
     payload : {<<>>, EmptyObjectPayload, EventPayload, NumberedPayload,
                <<"{", "}", "5">>},
     secret : Secrets]
IdleSignArgs ==
    [timestamp |-> Integer(1700000000), payload |-> EmptyObjectPayload,
     secret |-> "whsec_a"]

------------------------------------------------------------------------------
(* DocumentsResource.waitForCompletion *)

\* DocumentJobStatus
JobStatuses == {"queued", "processing", "completed", "failed"}

\* the options of the calls of the model: each field left out, 0, or set
NoWaitOptions == [pollInterval |-> Null, timeout |-> Null]
WaitInputs ==
    [pollInterval : {Null, Some(0), Some(2000)},
     timeout : {Null, Some(0), Some(2500)}]

\* options.pollInterval || 1000 and options.timeout || 30000
PollIntervalOf(o) ==
    IF IsNull(o.pollInterval) \/ Val(o.pollInterval) = 0 THEN 1000
    ELSE Val(o.pollInterval)
TimeoutOf(o) ==
    IF IsNull(o.timeout) \/ Val(o.timeout) = 0 THEN 30000 ELSE Val(o.timeout)

\* a test of the job status that only keeps waiting for queued jobs
IsFinished_NotQueued(status) == status # "queued"

\* job.status === 'completed' || job.status === 'failed'
IsFinished(status) == status \in {"completed", "failed"}

\* a timeout test that fires at the timeout itself
TimedOut_AtTimeout(now, start, timeout) == now - start >= timeout

\* Date.now() - startTime > timeout
TimedOut(now, start, timeout) == now - start > timeout

\* a loop body that tests the timeout before the status
LoopBody_TimeoutFirst(status, now, start, timeout) ==
    IF TimedOut(now, start, timeout) THEN "throw"
    ELSE IF IsFinished(status) THEN "return"
    ELSE "sleep"

\* the loop body after getJob resolved with a job of the status: return the
\* job, throw the timeout error, or sleep and poll again
LoopBody(status, now, start, timeout) ==
    IF IsFinished(status) THEN "return"
    ELSE IF TimedOut(now, start, timeout) THEN "throw"
    ELSE "sleep"

\* new Error(`Timeout waiting for job ${jobId} to complete`)
WaitTimeout == JsError("Error", "Timeout waiting for job job_1 to complete")

\* what getJob rejects with when its request fails
GetJobFailures == {RynkoError("Job not found", "NotFound", 404)}

\* the time a getJob call takes, and the time by which a timer set for ms
\* milliseconds fires (timers of less than 1 ms fire after 1 ms)
Latencies == {0, 700}
TimerDelay(ms) == IF ms < 1 THEN 1 ELSE ms

------------------------------------------------------------------------------
(* The call as a state machine *)

NoResult == [kind |-> "none", value |-> Null, error |-> Null]
Returned(v) == [kind |-> "return", value |-> v, error |-> Null]
Thrown(e) == [kind |-> "throw", value |-> Null, error |-> e]

\* the client after construction with config c, no call made yet
HttpInit(c) ==
    /\ config = c
    /\ retryConfig = Constructor(config)
    /\ pc = "idle"
    /\ call = Null
    /\ attempt = 0
    /\ attempts = 0
    /\ sent = Null
    /\ sleeps = 0
    /\ delay = Null
    /\ lastError = Null
    /\ response = Null
    /\ result = NoResult
    /\ timers = {}
    /\ aborted = {}
    /\ inflight = {}

\* the verifier before a call with options o at the instant t
HookReady(o, t) ==
    /\ options = o
    /\ clock = t
    /\ vpc = "ready"
    /\ verdict = NoVerdict
    /\ thrownAt = "none"
    /\ examined = Null
    /\ performed = <<>>

\* waitForCompletion before a call with options o
PollReady(o) ==
    /\ waitOptions = o
    /\ wpc = "idle"
    /\ startTime = Epoch
    /\ wallClock = Epoch
    /\ job = Null
    /\ polls = 0
    /\ waited = NoResult

\* the ids of the concurrent calls, and the locals of request() before a call
CallIds == {1, 2}
IdleCall ==
    [pc |-> "idle", call |-> Null, attempt |-> 0, attempts |-> 0,
     lastError |-> Null, timer |-> FALSE, aborted |-> FALSE,
     result |-> NoResult, seen |-> <<>>]
NoCalls == calls = [i \in CallIds |-> IdleCall]

\* computeSignature before a call with the arguments a
SignReady(a) ==
    /\ signArgs = a
    /\ signatures = <<>>
NoSignature == SignReady(IdleSignArgs)

\* the module of the verifier before the calls with the options o
ReplayReady(o) ==
    /\ envelope = o
    /\ verdicts = <<>>
    /\ memory = {}
NoReplay == ReplayReady(IdleOptions)

Init ==
    /\ \E c \in Configs : HttpInit(c)
    /\ HookReady(IdleOptions, Epoch)
    /\ PollReady(NoWaitOptions)
    /\ NoCalls
    /\ NoSignature
    /\ NoReplay

\* attempt < maxAttempts, the condition of the for loop
LoopCondition_StopsEarly(rc, n) == n < MaxAttempts(rc) - 1

LoopCondition(rc, n) == n < MaxAttempts(rc)

\* the head of the for loop with loop variable n: start attempt n (a new
\* AbortController, its timeout timer, fetch), or leave the loop and throw
LoopHead(n, rq) ==
    /\ attempt' = n
    /\ IF LoopCondition(retryConfig, n)
       THEN /\ pc' = "fetching"
            /\ timers' = timers \cup {n}
            /\ inflight' = inflight \cup {n}
            /\ attempts' = attempts + 1
            /\ sent' = Some(FetchArguments(config, rq))
            /\ result' = result
            /\ response' = Null
            /\ delay' = Null
       ELSE /\ pc' = "done"
            /\ result' = Thrown(IF ~IsNull(lastError) THEN lastError
                                ELSE Some(RynkoError("Request failed after retries",
                                                     "RetryExhausted", 0)))
            /\ UNCHANGED <<timers, attempts, sent, response, delay, inflight>>

\* what new URL() throws for a base it cannot parse
InvalidUrl == JsError("TypeError", "Invalid URL")

\* request(method, path, options) up to its first await: the URL is built
\* before the loop and outside its try block
Request(rq) ==
    /\ pc = "idle"
    /\ call' = Some(rq)
    /\ IF IsNull(NewUrl(rq.path, config.baseUrl))
       THEN /\ pc' = "done"
            /\ result' = Thrown(Some(InvalidUrl))
            /\ UNCHANGED <<attempt, timers, attempts, sent, response, delay,
                           inflight>>
       ELSE LoopHead(0, rq)
    /\ UNCHANGED <<config, retryConfig, sleeps, lastError, aborted>>
    /\ UNCHANGED <<hookVars, pollVars, calls, signVars, replayVars>>

\* an attempt that ends without cancelling its timer
ClearTimeout_Forgotten(pending, n) == pending

\* clearTimeout(timeoutId) for the timer of attempt n
ClearTimeout(pending, n) == pending \ {n}

\* the end of an iteration
Finish(outcome) ==
    /\ lastError' = outcome.lastError
    /\ delay' = outcome.delay
    /\ IF outcome.next = "sleep"
       THEN /\ pc' = "sleeping"
            /\ sleeps' = sleeps + 1
            /\ result' = result
       ELSE /\ pc' = "done"
            /\ sleeps' = sleeps
            /\ result' = (IF outcome.next = "return" THEN Returned(outcome.value)
                          ELSE Thrown(outcome.error))

\* fetch() resolves with a response: clearTimeout, then the rest of the try block
FetchResolves(resp, now, rnd) ==
    /\ pc = "fetching"
    /\ attempt \notin aborted
    /\ timers' = ClearTimeout(timers, attempt)
    /\ inflight' = inflight \ {attempt}
    /\ response' = Some(resp)
    /\ Finish(Try(retryConfig, attempt, resp, lastError, now, rnd))
    /\ UNCHANGED <<config, retryConfig, call, attempt, attempts, sent, aborted>>
    /\ UNCHANGED <<hookVars, pollVars, calls, signVars, replayVars>>

\* fetch() rejects without a response (network failure): the catch block
FetchRejects(e, rnd) ==
    /\ pc = "fetching"
    /\ attempt \notin aborted
    /\ timers' = ClearTimeout(timers, attempt)
    /\ inflight' = inflight \ {attempt}
    /\ Finish(Catch(retryConfig, attempt, e, lastError, Null, rnd))
    /\ UNCHANGED <<config, retryConfig, call, attempt, attempts, sent, response, aborted>>
    /\ UNCHANGED <<hookVars, pollVars, calls, signVars, replayVars>>

\* the timeout timer of the attempt in flight fires: controller.abort()
TimeoutFires_RetryWithoutAbort ==
    /\ pc = "fetching"
    /\ attempt \in timers
    /\ LoopHead(attempt + 1, Val(call))
    /\ UNCHANGED <<config, retryConfig, call, sleeps, lastError, aborted>>
    /\ UNCHANGED <<hookVars, pollVars, calls, signVars, replayVars>>

TimeoutFires ==
    /\ pc = "fetching"
    /\ attempt \in timers
    /\ timers' = timers \ {attempt}
    /\ aborted' = aborted \cup {attempt}
    /\ UNCHANGED <<config, retryConfig, pc, call, attempt, attempts, sent, sleeps,
                   delay, lastError, response, result, inflight>>
    /\ UNCHANGED <<hookVars, pollVars, calls, signVars, replayVars>>

\* fetch() rejects with AbortError after its signal was aborted: the catch block
FetchAborted(rnd) ==
    /\ pc = "fetching"
    /\ attempt \in aborted
    /\ timers' = ClearTimeout(timers, attempt)
    /\ inflight' = inflight \ {attempt}
    /\ Finish(Catch(retryConfig, attempt, AbortError, lastError, Null, rnd))
    /\ UNCHANGED <<config, retryConfig, call, attempt, attempts, sent, response, aborted>>
    /\ UNCHANGED <<hookVars, pollVars, calls, signVars, replayVars>>

\* the sleep timer fires: continue with the next iteration
SleepDone ==
    /\ pc = "sleeping"
    /\ LoopHead(attempt + 1, Val(call))
    /\ UNCHANGED <<config, retryConfig, call, sleeps, lastError, aborted>>
    /\ UNCHANGED <<hookVars, pollVars, calls, signVars, replayVars>>

Next ==
    \/ \E rq \in Calls : Request(rq)
    \/ \E resp \in Responses, now \in NowValues, rnd \in RandomValues :
          FetchResolves(resp, now, rnd)
    \/ \E e \in FetchFailures, rnd \in RandomValues : FetchRejects(e, rnd)
    \/ TimeoutFires
    \/ \E rnd \in RandomValues : FetchAborted(rnd)
    \/ SleepDone

Spec == Init /\ [][Next]_vars

\* the timers of the runtime fire, and fetch() settles once its signal is
\* aborted: setTimeout(resolve, ms) in sleep(), setTimeout(() =>
\* controller.abort(), timeout) and the signal handed to fetch()
FairSpec ==
    /\ Spec
    /\ WF_vars(SleepDone)
    /\ WF_vars(TimeoutFires)
    /\ WF_vars(\E rnd \in RandomValues : FetchAborted(rnd))

------------------------------------------------------------------------------
(* The verifier as a state machine: one call of an exported function *)

\* the client of the states in which the verifier is called
IdleConfig ==
    [baseUrl |-> AbsoluteUrl("https", "api.rynko.dev"), apiKey |-> "key_1",
     timeout |-> 30000, headers |-> NoHeaders, retry |-> RetryOmitted]

HookInit ==
    /\ HttpInit(IdleConfig)
    /\ \E o \in VerifyInputs, t \in Clocks : HookReady(o, t)
    /\ PollReady(NoWaitOptions)
    /\ NoCalls
    /\ NoSignature
    /\ NoReplay

\* parseSignatureHeader(options.signature)
ParseSignatureHeader ==
    /\ vpc = "ready"
    /\ vpc' = "parsed"
    /\ verdict' = parseSignatureHeader(options.signature)
    /\ performed' = <<"parseSignatureHeader">>
    /\ UNCHANGED <<httpVars, pollVars, calls, signVars, replayVars, options, clock, thrownAt, examined>>

\* verifyWebhookSignature(options) at the instant clock
VerifyWebhookSignature ==
    /\ vpc = "ready"
    /\ vpc' = "verified"
    /\ verdict' = verifyWebhookSignature(options, clock)
    /\ thrownAt' = VerifyRun(options, clock).site
    /\ examined' = VerifyRun(options, clock).examined
    /\ performed' = VerifyRun(options, clock).performed
    /\ UNCHANGED <<httpVars, pollVars, calls, signVars, replayVars, options, clock>>

HookNext ==
    \/ ParseSignatureHeader
    \/ VerifyWebhookSignature

HookSpec == HookInit /\ [][HookNext]_vars

------------------------------------------------------------------------------
(* waitForCompletion as a state machine *)

PollInit ==
    /\ HttpInit(IdleConfig)
    /\ HookReady(IdleOptions, Epoch)
    /\ \E o \in WaitInputs : PollReady(o)
    /\ NoCalls
    /\ NoSignature
    /\ NoReplay

\* waitForCompletion(jobId, options) up to its first await: the first getJob
WaitForCompletion ==
    /\ wpc = "idle"
    /\ wpc' = "polling"
    /\ startTime' = wallClock
    /\ polls' = 1
    /\ UNCHANGED <<httpVars, hookVars, calls, signVars, replayVars, waitOptions, wallClock, job, waited>>

\* getJob resolves with a job after some time: the rest of the loop body
GetJobReturns(status, latency) ==
    /\ wpc = "polling"
    /\ wallClock' = wallClock + latency
    /\ job' = Some([jobId |-> "job_1", status |-> status])
    /\ LET then == LoopBody(status, wallClock', startTime, TimeoutOf(waitOptions))
       IN IF then = "return"
          THEN wpc' = "done" /\ waited' = Returned(job')
          ELSE IF then = "throw"
          THEN wpc' = "done" /\ waited' = Thrown(Some(WaitTimeout))
          ELSE wpc' = "sleeping" /\ waited' = waited
    /\ UNCHANGED <<httpVars, hookVars, calls, signVars, replayVars, waitOptions, startTime, polls>>

\* getJob rejects: the error leaves waitForCompletion as it is
GetJobThrows(e, latency) ==
    /\ wpc = "polling"
    /\ wallClock' = wallClock + latency
    /\ wpc' = "done"
    /\ waited' = Thrown(Some(e))
    /\ UNCHANGED <<httpVars, hookVars, calls, signVars, replayVars, waitOptions, startTime, job, polls>>

\* the timer of the poll interval fires: the next iteration calls getJob
PollTimerFires ==
    /\ wpc = "sleeping"
    /\ wallClock' = wallClock + TimerDelay(PollIntervalOf(waitOptions))
    /\ wpc' = "polling"
    /\ polls' = polls + 1
    /\ UNCHANGED <<httpVars, hookVars, calls, signVars, replayVars, waitOptions, startTime, job, waited>>

PollNext ==
    \/ WaitForCompletion
    \/ \E status \in JobStatuses, latency \in Latencies : GetJobReturns(status, latency)
    \/ \E e \in GetJobFailures, latency \in Latencies : GetJobThrows(e, latency)
    \/ PollTimerFires

PollSpec == PollInit /\ [][PollNext]_vars

\* every getJob call returns, and the timers of the runtime fire
PollFairSpec ==
    /\ PollSpec
    /\ WF_vars(\E status \in JobStatuses, latency \in Latencies :
                  GetJobReturns(status, latency))
    /\ WF_vars(PollTimerFires)

------------------------------------------------------------------------------
(* Two concurrent calls of request() on one client *)

\* the clients, requests and fetch outcomes of the concurrent calls
ConcConfigs ==
    {c \in Configs :
        /\ c.baseUrl = AbsoluteUrl("https", "api.rynko.dev")
        /\ c.headers = NoHeaders
        /\ c.retry \in {RetryFalse,
                        RetryObject([NoOverride EXCEPT !.maxAttempts = Some(2)]),
                        RetryObject([NoOverride EXCEPT !.maxAttempts = Some(3)])}}
ConcCalls == {rq \in Calls : IsNull(rq.query) /\ (rq.method = "POST" => ~IsNull(rq.body))}
ConcResponses ==
    {resp \in Responses :
        /\ resp.status \in {200, 404, 429}
        /\ resp.retryAfter = Null
        /\ resp.body = JsonBody(EmptyObject)}

\* what an attempt met: a response, or a rejection of fetch()
GotResponse(resp) == [kind |-> "response", response |-> Some(resp), error |-> Null]
GotRejection(e) == [kind |-> "rejection", response |-> Null, error |-> Some(e)]

\* the iteration of attempt n for what the attempt met
Iteration(rc, n, event, le) ==
    IF event.kind = "response"
    THEN Try(rc, n, Val(event.response), le, Epoch, 0)
    ELSE Catch(rc, n, Val(event.error), le, Null, 0)

\* the error thrown after the loop
AfterLoop(le) ==
    Thrown(IF ~IsNull(le) THEN le
           ELSE Some(RynkoError("Request failed after retries", "RetryExhausted", 0)))

\* request() run alone against the events of a script, from attempt n on:
\* its outcome and the number of attempts it made
RECURSIVE RunAlone(_, _, _, _, _)
RunAlone(rc, script, n, le, made) ==
    IF ~LoopCondition(rc, n) THEN [result |-> AfterLoop(le), attempts |-> made]
    ELSE IF script = <<>> THEN [result |-> NoResult, attempts |-> made + 1]
    ELSE LET outcome == Iteration(rc, n, Head(script), le)
         IN IF outcome.next = "sleep"
            THEN RunAlone(rc, Tail(script), n + 1, outcome.lastError, made + 1)
            ELSE [result |-> (IF outcome.next = "return" THEN Returned(outcome.value)
                              ELSE Thrown(outcome.error)),
                  attempts |-> made + 1]

\* an attempt counter that the calls of a client share
AttemptOf_Shared(cs, i) == cs[1].attempt

\* let attempt: the loop variable of call i
AttemptOf(cs, i) == cs[i].attempt

\* the head of the for loop of a call with locals c, loop variable n
EnterLoop(c, n) ==
    IF LoopCondition(retryConfig, n)
    THEN [c EXCEPT !.pc = "fetching", !.attempt = n, !.attempts = @ + 1,
                   !.timer = TRUE, !.aborted = FALSE]
    ELSE [c EXCEPT !.pc = "done", !.attempt = n, !.result = AfterLoop(c.lastError)]

\* the end of an iteration of a call with locals c
Ended(c, outcome, event) ==
    [c EXCEPT !.pc = (IF outcome.next = "sleep" THEN "sleeping" ELSE "done"),
              !.lastError = outcome.lastError,
              !.timer = FALSE,
              !.seen = Append(@, event),
              !.result = (IF outcome.next = "sleep" THEN @
                          ELSE IF outcome.next = "return" THEN Returned(outcome.value)
                          ELSE Thrown(outcome.error))]

ConcInit ==
    /\ \E c \in ConcConfigs : HttpInit(c)
    /\ HookReady(IdleOptions, Epoch)
    /\ PollReady(NoWaitOptions)
    /\ NoCalls
    /\ NoSignature
    /\ NoReplay

\* call i starts: request() up to its first await
ConcRequest(i, rq) ==
    /\ calls[i].pc = "idle"
    /\ calls' = [calls EXCEPT ![i] = EnterLoop([@ EXCEPT !.call = Some(rq)], 0)]
    /\ UNCHANGED <<httpVars, hookVars, pollVars, signVars, replayVars>>

\* the fetch() of call i resolves with a response
ConcFetchResolves(i, resp) ==
    /\ calls[i].pc = "fetching"
    /\ ~calls[i].aborted
    /\ calls' = [calls EXCEPT ![i] =
         Ended(@, Iteration(retryConfig, AttemptOf(calls, i), GotResponse(resp),
                            @.lastError),
               GotResponse(resp))]
    /\ UNCHANGED <<httpVars, hookVars, pollVars, signVars, replayVars>>

\* the fetch() of call i rejects without a response
ConcFetchRejects(i, e) ==
    /\ calls[i].pc = "fetching"
    /\ ~calls[i].aborted
    /\ calls' = [calls EXCEPT ![i] =
         Ended(@, Iteration(retryConfig, AttemptOf(calls, i), GotRejection(e),
                            @.lastError),
               GotRejection(e))]
    /\ UNCHANGED <<httpVars, hookVars, pollVars, signVars, replayVars>>

\* the timeout timer of call i fires: its controller aborts its fetch()
ConcTimeoutFires(i) ==
    /\ calls[i].pc = "fetching"
    /\ calls[i].timer
    /\ calls' = [calls EXCEPT ![i].timer = FALSE, ![i].aborted = TRUE]
    /\ UNCHANGED <<httpVars, hookVars, pollVars, signVars, replayVars>>

\* the aborted fetch() of call i rejects with AbortError
ConcFetchAborted(i) ==
    /\ calls[i].pc = "fetching"
    /\ calls[i].aborted
    /\ calls' = [calls EXCEPT ![i] =
         Ended(@, Iteration(retryConfig, AttemptOf(calls, i), GotRejection(AbortError),
                            @.lastError),
               GotRejection(AbortError))]
    /\ UNCHANGED <<httpVars, hookVars, pollVars, signVars, replayVars>>

\* the sleep timer of call i fires: its next iteration
ConcSleepDone(i) ==
    /\ calls[i].pc = "sleeping"
    /\ calls' = [calls EXCEPT ![i] = EnterLoop(@, AttemptOf(calls, i) + 1)]
    /\ UNCHANGED <<httpVars, hookVars, pollVars, signVars, replayVars>>

ConcNext ==
    \/ \E i \in CallIds, rq \in ConcCalls : ConcRequest(i, rq)
    \/ \E i \in CallIds, resp \in ConcResponses : ConcFetchResolves(i, resp)
    \/ \E i \in CallIds, e \in FetchFailures : ConcFetchRejects(i, e)
    \/ \E i \in CallIds : ConcTimeoutFires(i)
    \/ \E i \in CallIds : ConcFetchAborted(i)
    \/ \E i \in CallIds : ConcSleepDone(i)

ConcSpec == ConcInit /\ [][ConcNext]_vars

------------------------------------------------------------------------------
(* Calls of computeSignature *)

\* the most calls of computeSignature the model makes with the same arguments
MaxSignCalls == 3

SignInit ==
    /\ HttpInit(IdleConfig)
    /\ HookReady(IdleOptions, Epoch)
    /\ PollReady(NoWaitOptions)
    /\ NoCalls
    /\ \E a \in SignInputs : SignReady(a)
    /\ NoReplay

\* computeSignature(timestamp, payload, secret)
ComputeSignature ==
    /\ Len(signatures) < MaxSignCalls
    /\ signatures' =
         Append(signatures,
                computeSignature(signArgs.timestamp, signArgs.payload, signArgs.secret))
    /\ UNCHANGED <<httpVars, hookVars, pollVars, calls, signArgs, replayVars>>

SignNext == ComputeSignature

SignSpec == SignInit /\ [][SignNext]_vars

------------------------------------------------------------------------------
(* Repeated calls of the verifier *)

\* the most calls of the verifier the model makes with the same options
MaxVerifications == 2

\* the instants of the calls: within a second, and 400 seconds later
ReplayClocks == Clocks \cup {Epoch + 400000}
ReplayInputs == {o \in VerifyInputs : o.secret = "whsec_a"}

\* a verifier that remembers the headers it accepted and rejects them
\* when they come again
Call_RejectReplay(kept, o, nowMs) ==
    LET v == verifyWebhookSignature(o, nowMs)
    IN IF o.signature \in kept
       THEN [verdict |-> Throws(WebhookSignatureError("Invalid signature")),
             kept |-> kept]
       ELSE [verdict |-> v,
             kept |-> IF v.kind = "return" THEN kept \cup {o.signature} ELSE kept]

\* a call of verifyWebhookSignature in a module that holds kept: its
\* verdict, and what the module holds after it
Call(kept, o, nowMs) ==
    [verdict |-> verifyWebhookSignature(o, nowMs), kept |-> kept]

ReplayInit ==
    /\ HttpInit(IdleConfig)
    /\ HookReady(IdleOptions, Epoch)
    /\ PollReady(NoWaitOptions)
    /\ NoCalls
    /\ NoSignature
    /\ \E o \in ReplayInputs : ReplayReady(o)

\* verifyWebhookSignature(envelope) at the instant t
VerifyEnvelope(t) ==
    /\ Len(verdicts) < MaxVerifications
    /\ verdicts' = Append(verdicts, [at |-> t, verdict |-> Call(memory, envelope, t).verdict])
    /\ memory' = Call(memory, envelope, t).kept
    /\ UNCHANGED <<httpVars, hookVars, pollVars, calls, signVars, envelope>>

ReplayNext == \E t \in ReplayClocks : VerifyEnvelope(t)

ReplaySpec == ReplayInit /\ [][ReplayNext]_vars

------------------------------------------------------------------------------
(* Properties of the retry loop *)

\* the delays calculateDelay can return for attempt n after response resp
ComputedDelays(n, resp) ==
    {calculateDelay(retryConfig, n, parseRetryAfter(resp.retryAfter, now), rnd) :
        now \in NowValues, rnd \in RandomValues}

\* C1: with a retry policy, a response whose status is in the retryable set,
\* received by an attempt with index below maxAttempts - 1, does not end the
\* call: the call sleeps once for the computed delay, and the sleep is
\* followed by exactly one further attempt, the next index, carrying the
\* same method, URL, headers and body.
C1_RetryableResponseIsRetried ==
    [][ /\ ( /\ pc = "fetching"
             /\ ~IsNull(response')
             /\ ~IsNull(retryConfig)
             /\ Val(response').status \in Val(retryConfig).retryableStatuses
             /\ attempt < MaxAttempts(retryConfig) - 1 )
           => ( /\ pc' = "sleeping"
                /\ result' = NoResult
                /\ sleeps' = sleeps + 1
                /\ attempts' = attempts
                /\ ~IsNull(delay')
                /\ Val(delay') \in ComputedDelays(attempt, Val(response')) )
        /\ pc = "sleeping"
           => ( /\ pc' = "fetching"
                /\ attempt' = attempt + 1
                /\ attempts' = attempts + 1
                /\ sleeps' = sleeps
                /\ sent' = sent )
      ]_vars

\* the second attempt of a call is in flight after one sleep
C1_Witness ==
    /\ pc = "fetching"
    /\ attempt = 1
    /\ attempts = 2
    /\ sleeps = 1
    /\ ~IsNull(lastError)
    /\ Val(lastError).statusCode = 429

\* C2: with maxAttempts >= 1 a call never issues more than maxAttempts
\* attempts nor sleeps more than maxAttempts - 1 times; under the default
\* policy a call whose responses all have a retryable status (a call gets a
\* further attempt only after such a response, so these are the calls whose
\* last response has one) has issued exactly 5 attempts and slept exactly 4
\* times when it fails.
C2_AttemptsAndSleepsBounded ==
    /\ MaxAttempts(retryConfig) >= 1
         => /\ attempts <= MaxAttempts(retryConfig)
            /\ sleeps <= MaxAttempts(retryConfig) - 1
    /\ ( /\ retryConfig = Some(DEFAULT_RETRY_CONFIG)
         /\ pc = "done"
         /\ ~IsNull(response)
         /\ Val(response).status \in {429, 503, 504} )
         => (attempts = 5 /\ sleeps = 4 /\ result.kind = "throw")
    /\ (pc = "fetching" /\ attempt > 0)
         => (~IsNull(lastError) /\ shouldRetry(retryConfig, Val(lastError).statusCode))

C2_Witness ==
    /\ retryConfig = Some(DEFAULT_RETRY_CONFIG)
    /\ pc = "done"
    /\ ~IsNull(response)
    /\ Val(response).status = 429
    /\ attempts = 5
    /\ sleeps = 4
    /\ result.kind = "throw"

\* C3: a client built with retry: false, or with a policy whose maxAttempts
\* is 1, issues exactly one attempt per call and never sleeps, whatever the
\* attempt produces (a call whose URL cannot be built ends before the loop,
\* with no attempt at all).
C3_SingleAttemptNeverSleeps ==
    (config.retry.isFalse \/ (~IsNull(retryConfig) /\ Val(retryConfig).maxAttempts = 1))
      => /\ sleeps = 0
         /\ pc # "sleeping"
         /\ attempts <= 1
         /\ (pc = "fetching" \/ (pc = "done" /\ result.error # Some(InvalidUrl)))
              => attempts = 1

C3_Witness ==
    /\ config.retry.isFalse
    /\ pc = "done"
    /\ ~IsNull(response)
    /\ Val(response).status = 503
    /\ attempts = 1
    /\ sleeps = 0

\* C4: with a retry policy, a call does not end on a network failure or a
\* timeout of an attempt (an attempt that got no response) while attempts
\* remain.
C4_FailureRetriedWhileAttemptsRemain ==
    ( /\ pc = "done"
      /\ ~IsNull(retryConfig)
      /\ attempts > 0
      /\ IsNull(response) )
      => attempt >= MaxAttempts(retryConfig) - 1

\* the body of a response as the error paths decode it: its JSON object, or
\* the empty object when it is not JSON
DecodedOrEmpty(resp) == IF resp.body.kind = "json" THEN resp.body.object ELSE EmptyObject

\* the error the claims expect for a response: its status, the message and
\* error fields of its body, or "HTTP <status>" and "ApiError"
ExpectedApiError(resp) ==
    [isError |-> TRUE, name |-> "RynkoError",
     message |-> IF IsNull(DecodedOrEmpty(resp).message)
                 THEN "HTTP " \o ToString(resp.status)
                 ELSE Val(DecodedOrEmpty(resp).message),
     code |-> IF IsNull(DecodedOrEmpty(resp).error)
              THEN "ApiError"
              ELSE Val(DecodedOrEmpty(resp).error),
     statusCode |-> resp.status]

\* C5: with a retry policy, when the response to the last permitted attempt
\* has a retryable status the call fails with the error of that response.
C5_ExhaustionSurfacesResponseError ==
    ( /\ pc = "done"
      /\ ~IsNull(retryConfig)
      /\ ~IsNull(response)
      /\ Val(response).status \in Val(retryConfig).retryableStatuses
      /\ attempt = MaxAttempts(retryConfig) - 1 )
      => result = Thrown(Some(ExpectedApiError(Val(response))))

\* C6: a non-2xx response whose status is not retryable ends the call without
\* a sleep, with the error of that response.
C6_NonRetryableErrorResponse ==
    ( /\ ~IsNull(response)
      /\ ~Ok(Val(response))
      /\ ~shouldRetry(retryConfig, Val(response).status) )
      => /\ pc = "done"
         /\ IsNull(delay)
         /\ result = Thrown(Some(ExpectedApiError(Val(response))))

C8_DelayAtMostMaxDelay ==
    (~IsNull(delay) /\ ~IsNull(retryConfig))
      => Val(delay) <= Val(retryConfig).maxDelayMs

\* a Retry-After date beyond maxDelay, slept for maxDelay
C8_Witness ==
    /\ pc = "sleeping"
    /\ ~IsNull(response)
    /\ Val(response).retryAfter = Some(DateFuture)
    /\ Val(delay) = Val(retryConfig).maxDelayMs

\* a Retry-After value that is a count of seconds: one or more digits
IsSeconds(header) ==
    /\ ~IsNull(header)
    /\ Val(header) # <<>>
    /\ \A i \in 1..Len(Val(header)) : IsDigit(Val(header)[i])

\* C9: for a Retry-After of N seconds the computed delay lies between
\* 1000 * N and 1000 * N + maxJitter, capped at maxDelay; for Retry-After: 2
\* between 2000 and 2000 + maxJitter, capped at maxDelay.
C9_RetryAfterSecondsDelay ==
    (~IsNull(delay) /\ ~IsNull(response) /\ IsSeconds(Val(response).retryAfter))
      => LET N == ReadDigits(Val(Val(response).retryAfter), 0)
             policy == Val(retryConfig)
         IN /\ Min(1000 * N, policy.maxDelayMs) <= Val(delay)
            /\ Val(delay) <= Min(1000 * N + policy.maxJitterMs, policy.maxDelayMs)
            /\ Val(response).retryAfter = Some(<<"2">>)
                 => /\ Min(2000, policy.maxDelayMs) <= Val(delay)
                    /\ Val(delay) <= Min(2000 + policy.maxJitterMs, policy.maxDelayMs)

\* Retry-After: 2 slept for two seconds and some jitter
C9_Witness ==
    /\ pc = "sleeping"
    /\ ~IsNull(response)
    /\ Val(response).retryAfter = Some(<<"2">>)
    /\ Val(delay) > 2000
    /\ Val(delay) < 3000

\* C10: an attempt whose timeout timer fires before a response arrives is
\* aborted through its own controller, no other attempt is, and the call
\* fails with code TimeoutError and statusCode 408.
C10_TimeoutAbortsAttempt ==
    /\ aborted \subseteq {attempt}
    /\ (pc = "fetching" /\ attempt \notin timers) => attempt \in aborted
    /\ (pc = "done" /\ attempt \in aborted)
         => /\ IsNull(response)
            /\ result = Thrown(Some(RynkoError("Request timeout", "TimeoutError", 408)))

\* the second attempt of a call timed out
C10_Witness ==
    /\ pc = "done"
    /\ aborted = {1}
    /\ result.kind = "throw"
    /\ Val(result.error).code = "TimeoutError"
    /\ Val(result.error).statusCode = 408

------------------------------------------------------------------------------
(* Properties of the whole call *)

\* C11: every failure of request() reaches the caller as a RynkoError with
\* message, code and statusCode; no other thrown value escapes, whatever the
\* path, base URL, body, response or value thrown by fetch.
C11_FailureIsRynkoError ==
    (pc = "done" /\ result.kind = "throw")
      => InstanceOfRynkoError(Val(result.error))

\* C12: with retry disabled and with every retry policy whose maxAttempts is
\* at least 1, no call fails with the code RetryExhausted.
C12_RetryExhaustedUnreachable ==
    (config.retry.isFalse \/ MaxAttempts(retryConfig) >= 1)
      => ~( /\ result.kind = "throw"
            /\ Val(result.error).code = "RetryExhausted" )

\* a call under a three-attempt policy has used all its attempts and failed
C12_Witness ==
    /\ MaxAttempts(retryConfig) = 3
    /\ pc = "done"
    /\ attempts = 3
    /\ sleeps = 2
    /\ result.kind = "throw"
    /\ Val(result.error).code # "RetryExhausted"

\* C13: every attempt is sent with an Authorization header, for every
\* custom-headers configuration: custom headers can replace its value (the
\* default is the bearer token of the API key) but cannot remove it.
C13_AuthorizationAlwaysSent ==
    /\ pc = "fetching" => ~IsNull(sent)
    /\ ~IsNull(sent)
         => /\ ~IsNull(Val(sent).headers["Authorization"])
            /\ Val(sent).headers["Authorization"] =
                 (IF IsNull(config.headers["Authorization"])
                  THEN Some("Bearer " \o config.apiKey)
                  ELSE config.headers["Authorization"])

\* a retry of a client whose custom headers replace Authorization
C13_Witness ==
    /\ pc = "fetching"
    /\ attempt = 1
    /\ config.headers["Authorization"] = Some("Token tenant_1")
    /\ Val(sent).headers["Authorization"] = Some("Token tenant_1")
    /\ Val(sent).headers["User-Agent"] = Some("@rynko/sdk/1.0.0")

\* C14: the attempts of a call are strictly sequential: at most one attempt
\* is in flight at any time, and attempt n + 1 is started only after attempt
\* n has settled and the sleep that followed it has completed.
C14_AttemptsSequential ==
    /\ []( /\ Cardinality(inflight) <= 1
           /\ pc = "fetching" => inflight = {attempt}
           /\ pc # "fetching" => inflight = {} )
    /\ [][ attempts' # attempts
             => /\ inflight = {}
                /\ attempts' = attempts + 1
                /\ inflight' = {attempt'}
                /\ \/ pc = "idle" /\ attempt' = 0
                   \/ pc = "sleeping" /\ attempt' = attempt + 1
          ]_vars

\* the third attempt is in flight alone, its two predecessors have settled
C14_Witness ==
    /\ pc = "fetching"
    /\ attempt = 2
    /\ attempts = 3
    /\ sleeps = 2
    /\ inflight = {2}

\* the steps of the state machine Idle -> Attempting(n) -> {Success |
\* Retrying -> Attempting(n + 1) | Failed}; failsEarly tells whether a call
\* may fail before its first attempt
StateMachineStep(failsEarly) ==
    /\ pc = "idle"
         => \/ pc' = "fetching" /\ attempt' = 0
            \/ failsEarly /\ pc' = "done" /\ result'.kind = "throw" /\ attempts' = 0
    /\ pc = "fetching"
         => \/ pc' = "fetching" /\ attempt' = attempt
            \/ pc' = "sleeping" /\ attempt' = attempt
            \/ pc' = "done" /\ result'.kind \in {"return", "throw"}
    /\ pc = "sleeping"
         => \/ pc' = "fetching" /\ attempt' = attempt + 1
            \/ /\ attempt + 1 >= MaxAttempts(retryConfig)
               /\ pc' = "done"
               /\ result'.kind = "throw"
    /\ pc = "done" => FALSE

------------------------------------------------------------------------------
(* Properties of the signature verifier *)

\* what the verified call was given: the parts of its header, the current
\* second, and the signature a sender holding the secret computes
HeaderOf(o) == parseSignatureHeader(o.signature)
HeaderParses(o) == HeaderOf(o).kind = "return"
TimestampOf(o) == Val(Val(HeaderOf(o).value).timestamp)
ClaimedSignature(o) == Val(Val(HeaderOf(o).value).signature)
CorrectSignature(o) == computeSignature(Integer(TimestampOf(o)), o.payload, o.secret)
WithinTolerance(o) == Abs(NowSeconds(clock) - TimestampOf(o)) <= ToleranceOf(o)

\* the header of the round trip: signed now, for the payload, with the secret
\* the verifier is given
RoundTrip(o) ==
    o.signature =
        SignatureHeader(NowSeconds(clock),
                        computeSignature(Integer(NowSeconds(clock)), o.payload, o.secret))

\* C16 as stated: for any timestamp, payload and secret, verifying the header
\* 't=<timestamp>,v1=' + computeSignature(timestamp, payload, secret) with
\* the same payload and secret and any tolerance >= 0 succeeds and returns
\* the event parsed from the payload, when the timestamp is the current second.
C16_RoundTripSucceeds ==
    (vpc = "verified" /\ RoundTrip(options))
      => /\ verdict.kind = "return"
         /\ verdict.value = JsonParse(options.payload)

\* C16: for any timestamp, secret and payload that is valid JSON, verifying
\* the header 't=<timestamp>,v1=' + computeSignature(timestamp, payload,
\* secret) with the same payload and secret and any tolerance >= 0 succeeds
\* and returns the event parsed from the payload, when the timestamp is the
\* current second.
C16_RoundTripOfJsonSucceeds ==
    (vpc = "verified" /\ RoundTrip(options) /\ ~IsNull(JsonParse(options.payload)))
      => /\ verdict.kind = "return"
         /\ verdict.value = JsonParse(options.payload)

\* a round trip of an event payload under tolerance 0
C16_Witness ==
    /\ vpc = "verified"
    /\ RoundTrip(options)
    /\ options.payload = EventPayload
    /\ options.tolerance = Some(0)
    /\ verdict = Gives([type |-> Some("document.completed")])

\* C17: verifyWebhookSignature fails with the tolerance error whenever the
\* timestamp of the header is more than tolerance seconds (default 300) away
\* from the current second, in the past or in the future, even when the
\* signature is correct.
C17_OutsideToleranceRejected ==
    ( /\ vpc = "verified"
      /\ HeaderParses(options)
      /\ Abs(NowSeconds(clock) - TimestampOf(options)) > ToleranceOf(options) )
      => verdict = Throws(WebhookSignatureError("Webhook timestamp outside tolerance window"))

\* a correctly signed event stamped 301 seconds ahead, default tolerance
C17_Witness ==
    /\ vpc = "verified"
    /\ HeaderParses(options)
    /\ IsNull(options.tolerance)
    /\ TimestampOf(options) = NowSeconds(clock) + 301
    /\ ClaimedSignature(options) = CorrectSignature(options)
    /\ ~IsNull(JsonParse(options.payload))
    /\ verdict.kind = "throw"

\* the positions at which two signature texts carry different hex digits
\* (digits differ when their values differ; letter case is not a difference
\* of digits)
DifferingDigits(a, b) == {i \in 1..Len(a) : HexValue(a[i]) # HexValue(b[i])}
OneHexDigitOff(a, b) ==
    /\ Len(a) = Len(b)
    /\ \A i \in 1..Len(a) : IsHex(a[i])
    /\ Cardinality(DifferingDigits(a, b)) = 1

\* C18: for a header whose timestamp is inside the tolerance window and
\* whose v1 value differs from the correct signature in one hex digit,
\* verifyWebhookSignature fails with the error 'Invalid signature'; the
\* error is the same whichever digit differs.
C18_OneDigitOffRejected ==
    ( /\ vpc = "verified"
      /\ HeaderParses(options)
      /\ WithinTolerance(options)
      /\ OneHexDigitOff(ClaimedSignature(options), CorrectSignature(options)) )
      => verdict = Throws(WebhookSignatureError("Invalid signature"))

\* the claimed signature is wrong in its last digit only
C18_Witness ==
    /\ vpc = "verified"
    /\ HeaderParses(options)
    /\ WithinTolerance(options)
    /\ OneHexDigitOff(ClaimedSignature(options), CorrectSignature(options))
    /\ DifferingDigits(ClaimedSignature(options), CorrectSignature(options))
         = {2 * DigestBytes}
    /\ verdict.kind = "throw"

\* C19: with a timestamp inside the tolerance window and a correct
\* signature, a payload that is not valid JSON makes verifyWebhookSignature
\* fail with 'Invalid webhook payload', not with a signature error.
C19_InvalidJsonRejected ==
    ( /\ vpc = "verified"
      /\ HeaderParses(options)
      /\ WithinTolerance(options)
      /\ ClaimedSignature(options) = CorrectSignature(options)
      /\ IsNull(JsonParse(options.payload)) )
      => verdict = Throws(WebhookSignatureError("Invalid webhook payload"))

C19_Witness ==
    /\ vpc = "verified"
    /\ options.payload = TruncatedPayload
    /\ HeaderParses(options)
    /\ WithinTolerance(options)
    /\ ClaimedSignature(options) = CorrectSignature(options)
    /\ verdict.kind = "throw"

\* the parts of a header with key k, and the t parts whose value parses as
\* an integer
PartsWithKey(header, k) ==
    LET parts == Split(header, ",")
    IN {i \in 1..Len(parts) : KeyOf(parts[i]) = k}
ParsableTimestampParts(header) ==
    LET parts == Split(header, ",")
    IN {i \in PartsWithKey(header, <<"t">>) :
          /\ ~IsNull(ValueOf(parts[i]))
          /\ ~IsNull(ParseInt(Val(ValueOf(parts[i]))))}

Rejected(o) ==
    \/ ~HeaderParses(o)
    \/ ~WithinTolerance(o)
    \/ BufferFromHex(ClaimedSignature(o)) # BufferFromHex(CorrectSignature(o))
    \/ IsNull(JsonParse(o.payload))

\* the throw statements of the verifier, named after the check they follow
Sites == {"format", "tolerance", "length", "bytes", "json"}

\* C21: every failure of verifyWebhookSignature, on any rejection path (bad
\* header format, timestamp out of tolerance, length mismatch, byte
\* mismatch, invalid JSON), raises a WebhookSignatureError and no other kind
\* of error; a call with a fault fails at once, without retry or recovery,
\* and a call ends with its first verdict.
C21_FailuresAreWebhookSignatureErrors ==
    /\ [](vpc = "verified"
            => /\ (verdict.kind = "throw") = Rejected(options)
               /\ (verdict.kind = "return") = ~Rejected(options)
               /\ (verdict.kind = "throw") = (thrownAt \in Sites)
               /\ verdict.kind = "throw"
                    => Val(verdict.error).name = "WebhookSignatureError")
    /\ [][vpc = "ready" /\ vpc' # "ready"]_vars

\* a call rejected for the length of the claimed signature
C21_Witness ==
    /\ vpc = "verified"
    /\ thrownAt = "length"
    /\ verdict.kind = "throw"
    /\ Val(verdict.error).name = "WebhookSignatureError"

ModelRuns == {VerifyRun(o, t) : o \in VerifyInputs, t \in Clocks}
MessagesAt(site) ==
    {Val(r.verdict.error).message : r \in {x \in ModelRuns : x.site = site}}

\* C30 as stated: each of the five rejection paths (bad header format,
\* timestamp out of tolerance, length mismatch, byte mismatch, invalid JSON)
\* raises its error with a message that none of the other four paths uses.
C30_MessagesDistinct ==
    (vpc = "verified" /\ thrownAt \in Sites)
      => \A s \in Sites \ {thrownAt} :
            Val(verdict.error).message \notin MessagesAt(s)

\* C30: each of the five rejection paths raises its error with one message;
\* the messages of the bad header format, the timestamp out of tolerance
\* and the invalid JSON paths are used by no other path, and the length
\* mismatch and byte mismatch paths share the message 'Invalid signature'.
C30_MessagesDistinctButSignature ==
    (vpc = "verified" /\ thrownAt \in Sites)
      => /\ MessagesAt(thrownAt) = {Val(verdict.error).message}
         /\ \A s \in Sites \ {thrownAt} :
               (Val(verdict.error).message \in MessagesAt(s))
                 = ({s, thrownAt} = {"length", "bytes"})
         /\ thrownAt \in {"length", "bytes"}
              => Val(verdict.error).message = "Invalid signature"

\* a call rejected for a byte mismatch, with the message of a length mismatch
C30_Witness ==
    /\ vpc = "verified"
    /\ thrownAt = "bytes"
    /\ Val(verdict.error).message \in MessagesAt("length")

------------------------------------------------------------------------------
(* Properties of waitForCompletion *)

Elapsed == wallClock - startTime

\* C23: waitForCompletion returns a job only when a poll found its status
\* to be 'completed' or 'failed', and it returns that job; it never returns
\* a job in status 'queued' or 'processing', and every other way of ending
\* is a thrown error.
C23_ReturnsFinishedJobsOnly ==
    /\ waited.kind = "return"
         => /\ wpc = "done"
            /\ waited.value = job
            /\ Val(job).status \in {"completed", "failed"}
    /\ wpc = "done" => waited.kind \in {"return", "throw"}
    /\ (wpc = "done" /\ ~IsNull(job) /\ Val(job).status \in {"queued", "processing"})
         => waited.kind = "throw"
    /\ wpc # "done" => waited = NoResult

\* the third poll found the job failed
C23_Witness ==
    /\ wpc = "done"
    /\ polls = 3
    /\ waited.kind = "return"
    /\ Val(waited.value).status = "failed"

\* C24: waitForCompletion never polls forever: a call whose polls never find
\* the job 'completed' or 'failed' eventually throws the error 'Timeout
\* waiting for job', and does so only once the time elapsed since the call
\* started exceeds the timeout (30000 ms by default, with a poll every 1000
\* ms by default), provided each getJob call returns and time advances.
C24_WaitTimesOut ==
    /\ (wpc # "idle") ~> (wpc = "done")
    /\ []( /\ (wpc = "done" /\ ~IsNull(job) /\ ~IsFinished(Val(job).status)
                 /\ waited.error \notin {Some(e) : e \in GetJobFailures})
              => waited = Thrown(Some(WaitTimeout))
           /\ waited = Thrown(Some(WaitTimeout))
              => Elapsed > TimeoutOf(waitOptions)
           /\ wpc = "sleeping" => Elapsed <= TimeoutOf(waitOptions)
           /\ polls <= (TimeoutOf(waitOptions) \div PollIntervalOf(waitOptions)) + 2
           /\ IsNull(waitOptions.timeout) => TimeoutOf(waitOptions) = 30000
           /\ IsNull(waitOptions.pollInterval) => PollIntervalOf(waitOptions) = 1000 )

\* a call with the default options that gave up after more than 30 seconds
C24_Witness ==
    /\ wpc = "done"
    /\ waitOptions = NoWaitOptions
    /\ waited = Thrown(Some(WaitTimeout))
    /\ Val(job).status = "processing"
    /\ polls > 30
    /\ Elapsed > 30000

------------------------------------------------------------------------------
(* Properties of the delay before a retry *)

\* initialDelayMs * Math.pow(2, attempt)
ExponentialDelay(rc, n) == Val(rc).initialDelayMs * (2 ^ n)

\* the call sleeps before a retry, after a response with the header value h
SleepsAfter(h) ==
    /\ pc = "sleeping"
    /\ ~IsNull(response)
    /\ Val(response).retryAfter = h

\* the delay slept is min(base + j, maxDelay) for a jitter j from js
DelayFrom(base, js) ==
    \E j \in js : delay = Some(Min(base + j, Val(retryConfig).maxDelayMs))

\* C25: with no Retry-After header, the delay before the retry that
\* follows attempt n is min(initialDelay * 2^n + j, maxDelay) for some j
\* with 0 <= j < maxJitter, hence at least min(initialDelay * 2^n, maxDelay).
C25_BackoffDelay ==
    SleepsAfter(Null)
      => /\ DelayFrom(ExponentialDelay(retryConfig, attempt),
                      {j \in 0..Val(retryConfig).maxJitterMs :
                         j < Val(retryConfig).maxJitterMs})
         /\ Val(delay) >= Min(ExponentialDelay(retryConfig, attempt),
                              Val(retryConfig).maxDelayMs)

\* the values of Math.random() * maxJitter: 0 <= j < maxJitter, and 0 when
\* maxJitter is 0
JitterRange(rc) ==
    {j \in 0..Val(rc).maxJitterMs : j < Val(rc).maxJitterMs \/ j = 0}

\* C25 (amended): with no Retry-After header, the delay before the retry
\* that follows attempt n is min(initialDelay * 2^n + j, maxDelay) for some
\* j with 0 <= j < maxJitter, or j = 0 when maxJitter is 0; hence at least
\* min(initialDelay * 2^n, maxDelay).
C25_BackoffDelayWithJitter ==
    SleepsAfter(Null)
      => /\ DelayFrom(ExponentialDelay(retryConfig, attempt), JitterRange(retryConfig))
         /\ Val(delay) >= Min(ExponentialDelay(retryConfig, attempt),
                              Val(retryConfig).maxDelayMs)

\* the second attempt of a client with the default policy got a 503
\* without the header: 2000 ms and half of the jitter
C25_Witness ==
    /\ SleepsAfter(Null)
    /\ attempt = 1
    /\ Val(retryConfig).initialDelayMs = 1000
    /\ delay = Some(2000 + Val(retryConfig).maxJitterMs \div 2)
    /\ Val(retryConfig).maxJitterMs = 1000

\* the HTTP-dates of the model at or before now, and after now
DatesNotAfterNow == {Some(DateNow), Some(DatePast)}

\* C26: a Retry-After that is an HTTP-date is preferred over the backoff:
\* the base delay is the date's difference from now clamped to non-negative,
\* so for a date at or before now the delay is the jitter alone, in
\* [0, maxJitter), capped at maxDelay.
C26_DateClampedToZero ==
    /\ SleepsAfter(Some(DateFuture)) => DelayFrom(5000, JitterRange(retryConfig))
    /\ \A h \in DatesNotAfterNow :
         SleepsAfter(h) => DelayFrom(0, JitterRange(retryConfig))

\* C26 (amended): a Retry-After that is an HTTP-date after now is preferred
\* over the backoff: the base delay is the date's difference from now. A
\* date at or before now is ignored, and the delay is that of the
\* exponential backoff, min(initialDelay * 2^n + jitter, maxDelay).
C26_PastDateIgnored ==
    /\ SleepsAfter(Some(DateFuture)) => DelayFrom(5000, JitterRange(retryConfig))
    /\ \A h \in DatesNotAfterNow :
         SleepsAfter(h)
           => DelayFrom(ExponentialDelay(retryConfig, attempt), JitterRange(retryConfig))

\* a 429 with a date ten seconds ago, after the second attempt: the
\* backoff's 2000 ms and half of the jitter
C26_Witness ==
    /\ SleepsAfter(Some(DatePast))
    /\ attempt = 1
    /\ Val(response).status = 429
    /\ Val(retryConfig).maxJitterMs = 1000
    /\ delay = Some(2500)

------------------------------------------------------------------------------
(* Properties of the status code of the surfaced error *)

\* C27: request() surfaces an error with statusCode 0 only when the failing
\* attempt received no HTTP response; when it received a response the error
\* carries a non-zero statusCode; statusCode 408 with code 'TimeoutError'
\* comes only from the client-enforced timeout.
C27_StatusZeroOnlyWithoutResponse ==
    (pc = "done" /\ result.kind = "throw" /\ InstanceOfRynkoError(Val(result.error)))
      => LET e == Val(result.error)
         IN /\ e.statusCode = 0 => IsNull(response)
            /\ ~IsNull(response) => e.statusCode # 0
            /\ (e.statusCode = 408 /\ e.code = "TimeoutError")
                 => (attempt \in aborted /\ IsNull(response))

------------------------------------------------------------------------------
(* Properties of the query parameters *)

\* the parameters named key of the URL sent
ParamsNamed(key) ==
    {i \in 1..Len(Val(sent).searchParams) : Val(sent).searchParams[i][1] = key}

\* C28: the URL sent contains one parameter for each entry of the query
\* mapping whose value is neither undefined nor null, a Date as its
\* ISO-8601 text and any other value in its default string form, and no
\* parameter for an entry whose value is undefined or null.
C28_QueryParameters ==
    (~IsNull(sent) /\ ~IsNull(call))
      => LET query == IF IsNull(Val(call).query) THEN <<>> ELSE Val(Val(call).query)
             given == {i \in 1..Len(query) : query[i][2].type \notin {"undefined", "null"}}
         IN /\ Len(Val(sent).searchParams) = Cardinality(given)
            /\ \A i \in 1..Len(query) :
                 IF i \in given
                 THEN /\ Cardinality(ParamsNamed(query[i][1])) = 1
                      /\ \A p \in ParamsNamed(query[i][1]) :
                           LET text == Val(sent).searchParams[p][2]
                               v == query[i][2]
                           IN /\ v.type = "date" => text = ToISOString(v.value)
                              /\ v.type = "string" => text = v.value
                              /\ v = NumberValue(0) => text = <<"0">>
                              /\ v = NumberValue(20) => text = <<"2", "0">>
                              /\ v = BooleanValue(FALSE) => text = <<"false">>
                 ELSE ParamsNamed(query[i][1]) = {}

\* a listing of jobs sent with the five parameters of its seven entries,
\* the falsy values 0, false and '' among them
C28_Witness ==
    /\ ~IsNull(sent)
    /\ Val(call).query = Some(JobsQuery)
    /\ Val(sent).searchParams =
         << <<"status", <<"completed">>>>, <<"limit", <<"0">>>>,
            <<"dateFrom", <<"2026-11-05T12:00:00.000Z">>>>,
            <<"archived", <<"false">>>>, <<"templateId", <<>>>> >>

------------------------------------------------------------------------------
(* Properties of concurrent calls *)

\* C29: concurrent calls of request() on one client do not interfere:
\* request() never writes the configuration or the retry policy, the attempt
\* counter, last error, abort controller and timers are private to each
\* call, and under any interleaving each call's outcome and number of
\* attempts are those of the call run alone against the same responses.
C29_CallsDoNotInterfere ==
    /\ [](\A i \in CallIds :
            calls[i].pc = "done"
              => LET alone == RunAlone(retryConfig, calls[i].seen, 0, Null, 0)
                 IN /\ calls[i].result = alone.result
                    /\ calls[i].attempts = alone.attempts
                    /\ calls[i].attempts = Len(calls[i].seen))
    /\ [][ /\ config' = config
           /\ retryConfig' = retryConfig
           /\ \A i \in CallIds :
                calls'[i] # calls[i] => \A j \in CallIds \ {i} : calls'[j] = calls[j]
         ]_vars

\* the second call has returned the response to its second attempt while
\* the first call, started before it, still waits before its third attempt
C29_Witness ==
    /\ calls[1].pc = "sleeping"
    /\ calls[1].attempts = 2
    /\ calls[2].pc = "done"
    /\ calls[2].attempts = 2
    /\ calls[2].result.kind = "return"

------------------------------------------------------------------------------
(* Properties of the order of the verifier's checks *)

\* the faults of a call: the checks its input fails, each taken by itself
LengthsDiffer(o) ==
    Len(BufferFromHex(ClaimedSignature(o))) # Len(BufferFromHex(CorrectSignature(o)))
BytesDiffer(o) ==
    BufferFromHex(ClaimedSignature(o)) # BufferFromHex(CorrectSignature(o))
Did(step) == \E i \in 1..Len(performed) : performed[i] = step

\* C31: verifyWebhookSignature performs its checks in a fixed order (header
\* format, timestamp tolerance, signature length, constant-time byte
\* comparison, JSON parsing), and the error reported is that of the
\* earliest failing check: no signature is computed or compared for a
\* malformed header or an out-of-tolerance timestamp, the byte comparison
\* is not attempted when the lengths differ, and the payload is not parsed
\* unless the signature matched.
C31_EarliestFailingCheckReported ==
    vpc = "verified"
      => /\ thrownAt =
              (IF ~HeaderParses(options) THEN "format"
               ELSE IF ~WithinTolerance(options) THEN "tolerance"
               ELSE IF LengthsDiffer(options) THEN "length"
               ELSE IF BytesDiffer(options) THEN "bytes"
               ELSE IF IsNull(JsonParse(options.payload)) THEN "json"
               ELSE "none")
         /\ \E n \in 1..Len(Steps) : performed = SubSeq(Steps, 1, n)
         /\ (~HeaderParses(options) \/ ~WithinTolerance(options))
              => (~Did("computeSignature") /\ ~Did("length")
                    /\ ~Did("timingSafeEqual") /\ IsNull(examined))
         /\ (HeaderParses(options) /\ LengthsDiffer(options))
              => (~Did("timingSafeEqual") /\ IsNull(examined))
         /\ Did("JSON.parse")
              => (HeaderParses(options) /\ WithinTolerance(options)
                    /\ ~BytesDiffer(options) /\ thrownAt \in {"json", "none"})

\* a header out of tolerance whose signature is of the wrong length, for a
\* payload that is not JSON: the tolerance error, and nothing computed
C31_Witness ==
    /\ vpc = "verified"
    /\ HeaderParses(options)
    /\ ~WithinTolerance(options)
    /\ LengthsDiffer(options)
    /\ IsNull(JsonParse(options.payload))
    /\ thrownAt = "tolerance"
    /\ performed = <<"parseSignatureHeader", "tolerance">>

------------------------------------------------------------------------------
(* Properties of computeSignature *)

\* the signature of the call with arguments a
SignatureFor(a) == computeSignature(a.timestamp, a.payload, a.secret)

\* the other arguments of the model for which computeSignature returns
\* what the latest call returned
SameSignature ==
    {a \in SignInputs \ {signArgs} : SignatureFor(a) = signatures[Len(signatures)]}

------------------------------------------------------------------------------
(* Properties of unknown keys in the signature header *)

\* parts.join(',')
RECURSIVE Join(_)
Join(parts) ==
    IF Len(parts) = 1 THEN Head(parts)
    ELSE Head(parts) \o <<",">> \o Join(Tail(parts))

\* parts whose key is neither t nor v1: other keys, keys that differ from
\* t and v1 by a space, a letter case or a further character, a part
\* without '=', and the empty part
UnknownParts ==
    {<<"v", "0", "=", "f", "f">>,
     <<"v", "1", "1", "=", "f", "f">>,
     <<" ", "t", "=", "5">>,
     <<"T", "=", "5">>,
     <<"t", "t", "=", "5">>,
     <<"k", "e", "y">>,
     <<>>}
UnknownLists ==
    {<<u>> : u \in UnknownParts} \cup {<<u, w>> : u, w \in UnknownParts}

\* the header with the parts of us added after its first k parts
WithParts(header, k, us) ==
    LET parts == Split(header, ",")
    IN Join(SubSeq(parts, 1, k) \o us \o SubSeq(parts, k + 1, Len(parts)))

\* C33: adding to a valid header, at any position, any number of
\* comma-separated parts whose key is neither t nor v1 leaves the timestamp
\* and signature that parseSignatureHeader returns unchanged.
C33_UnknownKeysIgnored ==
    (vpc = "parsed" /\ verdict.kind = "return")
      => \A us \in UnknownLists :
           \A k \in 0..Len(Split(options.signature, ",")) :
              parseSignatureHeader(WithParts(options.signature, k, us)) = verdict

\* the example header has been parsed, and so has it with v0=ff at its end
C33_Witness ==
    /\ vpc = "parsed"
    /\ options.signature = ExampleHeader
    /\ verdict = Gives([timestamp |-> Some(1700000000),
                        signature |-> Some(<<"a", "b", "c", "d">>)])
    /\ WithParts(ExampleHeader, 2, << <<"v", "0", "=", "f", "f">> >>)
         = ExampleHeader \o <<",", "v", "0", "=", "f", "f">>

------------------------------------------------------------------------------
(* Properties of the timeout of waitForCompletion *)

\* C34: waitForCompletion waits at most the configured timeout: it starts
\* no new getJob poll once more than timeout milliseconds have elapsed
\* since the call began.
C34_NoPollAfterTimeout ==
    wpc = "polling" => Elapsed <= TimeoutOf(waitOptions)

\* C40: waitForCompletion always polls the job at least once, and in each
\* iteration tests the job status before the timeout: a poll that finds the
\* job 'completed' or 'failed' returns the job even when more than timeout
\* milliseconds have elapsed, and the timeout error is thrown only right
\* after a poll that found a status that is not terminal.
C40_StatusTestedBeforeTimeout ==
    /\ [](wpc = "done" => polls >= 1)
    /\ []((wpc = "done" /\ ~IsNull(job) /\ Val(job).status \in {"completed", "failed"})
            => waited = Returned(job))
    /\ [](waited = Thrown(Some(WaitTimeout))
            => /\ ~IsNull(job)
               /\ Val(job).status \in {"queued", "processing"}
               /\ Elapsed > TimeoutOf(waitOptions))
    /\ [][(waited' = Thrown(Some(WaitTimeout)) /\ waited # waited')
            => /\ wpc = "polling"
               /\ job' # Null
               /\ Val(job').status \in {"queued", "processing"}
               /\ polls' = polls]_vars

\* a job found completed by a poll that began after the timeout of 2500 ms
\* was returned
C40_Witness ==
    /\ wpc = "done"
    /\ waitOptions.timeout = Some(2500)
    /\ Elapsed > 2500
    /\ waited = Returned(job)
    /\ Val(job).status = "completed"

------------------------------------------------------------------------------
(* Properties of the accepted signature strings *)

\* C35: verifyWebhookSignature accepts a header only when its v1 string is
\* exactly the hex string that computeSignature returns for the header's
\* timestamp, the payload and the secret; a v1 value that is a different
\* string (other letter case, trailing characters, truncated) is rejected.
C35_ExactSignatureString ==
    (vpc = "verified" /\ verdict.kind = "return")
      => ClaimedSignature(options) = CorrectSignature(options)

------------------------------------------------------------------------------
(* Properties of the boundary of the tolerance window *)

\* C36: the tolerance check is inclusive at the boundary: a timestamp
\* exactly tolerance seconds before or after the current second is not
\* rejected as out of tolerance, and with tolerance 0 only a timestamp
\* equal to the current second passes the check.
C36_ToleranceInclusive ==
    (vpc = "verified" /\ HeaderParses(options))
      => LET now == NowSeconds(clock)
             timestamp == TimestampOf(options)
             tolerance == ToleranceOf(options)
         IN /\ (timestamp = now - tolerance \/ timestamp = now + tolerance)
                 => thrownAt # "tolerance"
            /\ options.tolerance = Some(0)
                 => (thrownAt # "tolerance") = (timestamp = now)

\* a header signed 300 seconds ago was accepted under the default tolerance
C36_Witness ==
    /\ vpc = "verified"
    /\ HeaderParses(options)
    /\ IsNull(options.tolerance)
    /\ TimestampOf(options) = NowSeconds(clock) - 300
    /\ verdict.kind = "return"

------------------------------------------------------------------------------
(* Properties of repeated calls of the verifier *)

------------------------------------------------------------------------------
(* Properties of the timeout timers *)

\* C38: the timeout timer of each attempt is cancelled on every path that
\* ends the attempt (a response, or an error thrown by fetch): no timeout
\* timer of a call is pending during a backoff sleep or after the call has
\* returned or thrown, and a timer aborts only the attempt that created
\* it, never a later attempt of the call.
C38_TimersCancelled ==
    /\ [](pc \in {"sleeping", "done"} => timers = {})
    /\ [](timers \subseteq {attempt})
    /\ []((pc = "fetching" /\ attempt \notin aborted) => timers = {attempt})
    /\ [][aborted' # aborted
            => /\ pc = "fetching"
               /\ attempt \in timers
               /\ attempt' = attempt
               /\ aborted' = aborted \cup {attempt}
               /\ timers' = timers \ {attempt}]_vars

\* the call sleeps before its third attempt: the timers of the first two
\* attempts are gone
C38_Witness ==
    /\ pc = "sleeping"
    /\ attempt = 1
    /\ attempts = 2
    /\ ~IsNull(response)
    /\ timers = {}


\* C39: the delay passed to sleep before a retry is never negative, for every
\* attempt index, every retry policy with non-negative initialDelayMs,
\* maxDelayMs and maxJitterMs, and every Retry-After value, a negative integer
\* and a date in the past included.
C39_DelayNeverNegative ==
    ( /\ pc = "sleeping"
      /\ ~IsNull(retryConfig)
      /\ Val(retryConfig).initialDelayMs >= 0
      /\ Val(retryConfig).maxDelayMs >= 0
      /\ Val(retryConfig).maxJitterMs >= 0 )
        => Val(delay) >= 0

====
